---- MODULE Spec2Model ----
(***************************************************************************)
(* Offline chat outbox and background resync of the farmer assistant.      *)
(*                                                                         *)
(* Modelled code:                                                          *)
(*   services/offlineService.ts (src/unnamed/part_001)  storage wrapper,   *)
(*       chat transcript and outbox queue                                  *)
(*   App.tsx (src/unnamed/part_009)  syncOfflineMessages and its trigger   *)
(*   components/features/AIChat.tsx  sendMessage, handleStorageChange      *)
(*                                                                         *)
(* JavaScript runs the handlers on one thread: a handler runs without      *)
(* interruption up to its next await, so every action below is the code    *)
(* between two awaits.  The chat view is taken to be open (a view that is  *)
(* opened later loads the same transcript with getChatHistory), one        *)
(* interactive send is in flight at a time, and localStorage writes        *)
(* succeed.  The timestamp of a cache entry is not modelled.               *)
(*                                                                         *)
(* Spec      the chat, the outbox and the resync worker                    *)
(* FairSpec  Spec, with every backend stream of the worker terminating     *)
(* SpecStore the storage functions on their own, over unreadable stored    *)
(*           content and refused writes                                    *)
(***************************************************************************)
EXTENDS Integers, Sequences, FiniteSets, TLC

\* ---------------------------------------------------------------- bounds
MaxMsgs == 2        \* user messages sent in one behaviour
MaxTokens == 2      \* tokens one backend stream yields
MaxDisturbances == 1 \* page reloads plus attachments sent offline in one behaviour
MaxStored == 2      \* items of the outbox written by the storage functions on their own
MaxSales == 2       \* harvest sales logged in one behaviour

Prompts == {"hello"}
Lang == "en"

VARIABLES
    isOnline,            \* useOfflineStatus(): observed connectivity
    isSyncing,           \* App.tsx: isSyncing.current
    localStorage,        \* the two chat keys of window.localStorage
    syncPc,              \* syncOfflineMessages: "idle" or "streaming" (inside for await)
    queue,               \* syncOfflineMessages: const queue
    qIdx,                \* position of queuedMessage in queue (1-based, 0 when idle)
    currentChatHistory,  \* syncOfflineMessages: let currentChatHistory
    userMessageIndex,    \* syncOfflineMessages: const userMessageIndex (0-based, -1 not found)
    fullResponse,        \* syncOfflineMessages: let fullResponse
    firstChunk,          \* syncOfflineMessages: let firstChunk
    messages,            \* AIChat: useState messages
    loading,             \* AIChat: useState loading
    error,               \* AIChat: useState error
    sendPc,              \* sendMessage: "idle", "converting" (await fileToBase64), "streaming"
    userMessage,         \* sendMessage: the message being sent (NoMessage when idle)
    outbox,              \* addMessageToQueue: const outbox, read before the await
    sendResponse,        \* sendMessage: let fullResponse
    firstChunkReceived,  \* sendMessage: let firstChunkReceived
    files,               \* history: number of attachments sent so far
    nextId,              \* history: number of message ids handed out so far
    crashes,             \* history: number of page reloads so far
    passLog,             \* history: backend calls of the current (or last) drain pass
    dropped,             \* history: a resync request was dropped during the current pass
    fresh,               \* history: ids sent offline since a drain pass was last running
    calls,               \* history: calls of syncOfflineMessages made by the last step
    storeLog,            \* history: the last call of a storage function made on its own
    rewardsStorage,      \* the two rewards keys of window.localStorage
    points,              \* Rewards: useState points
    harvestLog,          \* Rewards: useState harvestLog
    rewardsLoading,      \* Rewards: useState loading
    rewardsError,        \* Rewards: useState error
    quantity,            \* Rewards: useState quantity (the value of the number input)
    rewardsPc,           \* handleSubmit: "idle" or "pricing" (await getMarketPriceForSale)
    submitted,           \* handleSubmit: the quantity its closure holds
    sales,               \* history: number of sales logged so far (the clock of Date.now())
    storedProfile,       \* the user profile key of window.localStorage
    userLocation,        \* AppContent: useState userLocation
    userProfile,         \* AppContent: useState userProfile
    showLocationModal,   \* AppContent: useState showLocationModal
    hasShownLocationModal, \* AppContent: hasShownLocationModal.current
    appPc,               \* AppContent: "start" (not mounted yet) or "mounted"
    effectDeps,          \* the [userLocation, userProfile] the location effect last ran with
    detecting,           \* fetchAndSetLocation: awaiting getAccurateLocation
    locPc,               \* getAccurateLocation: "idle", the await it is at, or "done"
    geoError,            \* getAccurateLocation: geoError
    highAccuracyLocation, \* getAccurateLocation: highAccuracyLocation
    position,            \* getCurrentPosition: the coordinates it resolved with
    locResult,           \* what getAccurateLocation returned or threw
    ipLookups,           \* history: requests made to the IP lookup service
    positionOutcome,     \* history: how navigator.geolocation answered
    geocodeResponse,     \* history: the reverse geocoding response
    ipResponse,          \* history: the IP lookup response
    cacheStorage,        \* sw.js: the caches of the origin, by name
    swState,             \* sw.js: the life cycle state of the service worker
    toDelete,            \* activate: the caches.delete calls that have not settled
    inFlight,            \* fetch listener: per request, the promise chain it is in
    swLog                \* history: the fetch event the last step answered

syncVars == <<syncPc, queue, qIdx, currentChatHistory, userMessageIndex, fullResponse, firstChunk>>
rewardsVars ==
    <<rewardsStorage, points, harvestLog, rewardsLoading, rewardsError, quantity, rewardsPc,
      submitted, sales>>
startVars ==
    <<storedProfile, userLocation, userProfile, showLocationModal, hasShownLocationModal, appPc,
      effectDeps, detecting>>
locateVars ==
    <<locPc, geoError, highAccuracyLocation, position, locResult, ipLookups, positionOutcome,
      geocodeResponse, ipResponse>>
workerVars == <<cacheStorage, swState, toDelete, inFlight, swLog>>
featureVars == <<rewardsVars, startVars, locateVars, workerVars>>
sendVars == <<loading, error, sendPc, userMessage, outbox, sendResponse, firstChunkReceived>>
vars == <<isOnline, isSyncing, localStorage, syncVars, messages, sendVars,
          nextId, crashes, passLog, dropped, fresh, files, calls, storeLog, featureVars>>

\* ------------------------------------------------------- data structures
UserId(n) == [n |-> n, suffix |-> ""]
ModelId(id) == [n |-> id.n, suffix |-> "-model"]

NoMessage == [id |-> UserId(0), role |-> "none", text |-> <<>>, status |-> "undefined",
              fileName |-> "undefined"]

\* ------------------------------------------ window.localStorage and JSON
\* A stored item is a string; it is modelled by what getItem and JSON.parse
\* make of it: nothing stored, a string that is not JSON, or the JSON text
\* of a cache entry, kept as the list of its serialised objects.
Keys == {"chatHistory", "chatOutbox"}

\* No storage function has been called on its own.
NoCall == [op |-> "none", ok |-> TRUE, raised |-> FALSE]

Absent == [present |-> FALSE, wellFormed |-> FALSE, data |-> <<>>]

Unparsable == [present |-> TRUE, wellFormed |-> FALSE, data |-> <<>>]

\* The members of ChatMessage and of QueuedMessage; status and fileName of a
\* ChatMessage are optional, a missing member reads as undefined.
ChatKeys == {"id", "role", "text", "status", "fileName"}
QueueKeys == {"id", "prompt", "fileData", "fileName", "lang"}
OptionalKeys == {"status", "fileName"}

SaleKeys == {"id", "quantity", "calculatedRevenue", "pointsEarned"}

MembersOf(key) ==
    IF key = "chatHistory" THEN ChatKeys
    ELSE IF key = "chatOutbox" THEN QueueKeys
    ELSE SaleKeys

\* Variant: the serialisation keeps the required members only.
stringifyRequired(obj) ==
    [k \in {f \in DOMAIN obj : f \notin OptionalKeys} |-> obj[k]]

\* JSON.stringify of one object: a member whose value is undefined is left out.
stringifyObject(obj) ==
    [k \in {f \in DOMAIN obj : ~(f \in OptionalKeys /\ obj[f] = "undefined")} |-> obj[k]]

\* JSON.parse of one object, read as a value with the members keys.
parseObject(text, keys) ==
    [k \in keys |-> IF k \in DOMAIN text THEN text[k] ELSE "undefined"]

JSONstringify(data) ==
    [present |-> TRUE, wellFormed |-> TRUE,
     data |-> [i \in 1..Len(data) |-> stringifyObject(data[i])]]

JSONparse(item, keys) ==
    [threw |-> ~item.wellFormed,
     value |-> IF item.wellFormed
               THEN [i \in 1..Len(item.data) |-> parseObject(item.data[i], keys)]
               ELSE <<>>]

\* localStorage.setItem: the write is refused (quota exceeded, storage
\* unavailable) by an exception that leaves the stored value as it was.
setItem(ls, key, item, ok) ==
    [threw |-> ~ok, ls |-> IF ok THEN [ls EXCEPT ![key] = item] ELSE ls]

\* ------------------------------------------------- offlineService.ts
\* The result of a storage function: the storage after it, and whether an
\* exception reached the caller.
\* Variant: a refused write reaches the caller and loses the old entry.
setCachedDataTorn(ls, key, data, ok) ==
    [raised |-> ~ok, ls |-> [ls EXCEPT ![key] = IF ok THEN JSONstringify(data) ELSE Absent]]

\* setCachedData with a storage that accepts the write (ok) or refuses it.
setCachedDataWhen(ls, key, data, ok) ==
    [raised |-> FALSE, ls |-> setItem(ls, key, JSONstringify(data), ok).ls]

\* setCachedData with a storage that accepts the write.
setCachedData(ls, key, data) == setCachedDataWhen(ls, key, data, TRUE).ls

Null == [raised |-> FALSE, isNull |-> TRUE, data |-> <<>>]

\* Variant: the exception of JSON.parse is not caught.
getCachedDataNoCatch(ls, key) ==
    IF ~ls[key].present THEN Null
    ELSE IF JSONparse(ls[key], MembersOf(key)).threw
    THEN [raised |-> TRUE, isNull |-> FALSE, data |-> <<>>]
    ELSE [raised |-> FALSE, isNull |-> FALSE,
          data |-> JSONparse(ls[key], MembersOf(key)).value]

getCachedData(ls, key) ==
    IF ~ls[key].present THEN Null
    ELSE IF JSONparse(ls[key], MembersOf(key)).threw THEN Null
    ELSE [raised |-> FALSE, isNull |-> FALSE,
          data |-> JSONparse(ls[key], MembersOf(key)).value]

getChatHistory(ls) ==
    IF getCachedData(ls, "chatHistory").isNull THEN <<>>
    ELSE getCachedData(ls, "chatHistory").data

saveChatHistory(ls, msgs) == setCachedData(ls, "chatHistory", msgs)

getMessageQueue(ls) ==
    IF getCachedData(ls, "chatOutbox").isNull THEN <<>>
    ELSE getCachedData(ls, "chatOutbox").data

clearMessageQueue(ls) == [ls EXCEPT !["chatOutbox"] = Absent]

QueuedMessage(message, fileData) ==
    [id |-> message.id, prompt |-> message.text, fileData |-> fileData,
     fileName |-> IF message.fileName = "undefined" THEN "null" ELSE message.fileName,
     lang |-> Lang]

\* Variant: the new item is put at the front of the list (unshift).
PushFront(list, item) == <<item>> \o list

Push(list, item) == Append(list, item)

\* ------------------------------------------------------ geminiService.ts
\* sendChatMessage yields the non-empty texts of the response stream.  The
\* backend's answer to one prompt is taken to be a fixed chunk sequence
\* that names the message it answers, so that the text of one answer is
\* never mistaken for the text of another.
Chunk(id, k) == [answers |-> id.n, part |-> k]

\* ------------------------------------------------------------- helpers
RECURSIVE findIndexFrom(_, _, _)
findIndexFrom(list, id, i) ==
    IF i > Len(list) THEN -1
    ELSE IF list[i].id = id THEN i - 1
    ELSE findIndexFrom(list, id, i + 1)

findIndex(list, id) == findIndexFrom(list, id, 1)

SetStatus(list, index, status) ==
    IF index > -1 THEN [list EXCEPT ![index + 1].status = status] ELSE list

Ids(list) == [i \in 1..Len(list) |-> list[i].id]
IdSet(list) == {list[i].id : i \in 1..Len(list)}

\* ------------------------------------- numbers and their decimal strings
\* A string is the sequence of its characters.  A number is NaN or
\* value * 10^exp with an integer value: exp is 0 when the number has at most
\* MaxPlainDigits digits, and otherwise value has no trailing zero.  A
\* quantity is held in hundredths, the step of the number input.
DigitChar == <<"0", "1", "2", "3", "4", "5", "6", "7", "8", "9">>
IsDigit(c) == \E d \in 1..10 : DigitChar[d] = c
DigitValue(c) == (CHOOSE d \in 1..10 : DigitChar[d] = c) - 1

MaxPlainDigits == 9

NaN == [nan |-> TRUE, value |-> 0, exp |-> 0]
Number(n) == [nan |-> FALSE, value |-> n, exp |-> 0]

Abs(n) == IF n < 0 THEN -n ELSE n

RECURSIVE natToString(_)
natToString(n) ==
    IF n < 10 THEN <<DigitChar[n + 1]>>
    ELSE natToString(n \div 10) \o <<DigitChar[(n % 10) + 1]>>

Digits(n) == Len(natToString(Abs(n)))

RECURSIVE Pow10(_)
Pow10(k) == IF k = 0 THEN 1 ELSE 10 * Pow10(k - 1)

RECURSIVE StripZeros(_, _)
StripZeros(value, exp) ==
    IF value # 0 /\ value % 10 = 0 THEN StripZeros(value \div 10, exp + 1)
    ELSE [value |-> value, exp |-> exp]

\* The number value * 10^exp.
Norm(value, exp) ==
    LET s == StripZeros(value, exp)
    IN  IF value = 0 THEN Number(0)
        ELSE IF Digits(s.value) + s.exp <= MaxPlainDigits
        THEN Number(s.value * Pow10(s.exp))
        ELSE [nan |-> FALSE, value |-> s.value, exp |-> s.exp]

\* The number of digits of the integer part of x.
Magnitude(x) == Digits(x.value) + x.exp

\* A double carries this many significant decimal digits.
SignificantDigits == 16

\* a + b: the smaller term is lost when it lies below the precision of the
\* larger one; otherwise the sum is exact.
Add(a, b) ==
    IF a.nan \/ b.nan THEN NaN
    ELSE IF a.value = 0 THEN b
    ELSE IF b.value = 0 THEN a
    ELSE IF Magnitude(a) - Magnitude(b) > SignificantDigits THEN a
    ELSE IF Magnitude(b) - Magnitude(a) > SignificantDigits THEN b
    ELSE IF a.exp >= b.exp
    THEN Norm(a.value * Pow10(a.exp - b.exp) + b.value, b.exp)
    ELSE Norm(b.value * Pow10(b.exp - a.exp) + a.value, a.exp)

\* price * x for an integer price.
Times(price, x) == IF x.nan THEN NaN ELSE Norm(price * x.value, x.exp)

\* Number.prototype.toString switches to exponent notation from 10^21 on.
ExponentFrom == 21

RECURSIVE Zeros(_)
Zeros(k) == IF k = 0 THEN <<>> ELSE <<"0">> \o Zeros(k - 1)

\* Number.prototype.toString for an integer or NaN.
toString(x) ==
    LET digits == natToString(Abs(x.value))
        sign == IF x.value < 0 THEN <<"-">> ELSE <<>>
    IN  IF x.nan THEN <<"N", "a", "N">>
        ELSE IF Magnitude(x) <= ExponentFrom THEN sign \o digits \o Zeros(x.exp)
        ELSE sign \o <<digits[1]>>
                  \o (IF Len(digits) > 1 THEN <<".">> \o Tail(digits) ELSE <<>>)
                  \o <<"e", "+">> \o natToString(Magnitude(x) - 1)

\* The position after the digits of str that start at position i.
RECURSIVE digitsEnd(_, _)
digitsEnd(str, i) ==
    IF i <= Len(str) /\ IsDigit(str[i]) THEN digitsEnd(str, i + 1) ELSE i

\* The number a sequence of digits spells.
RECURSIVE digitsToNumber(_, _)
digitsToNumber(digits, exp) ==
    IF digits = <<>> THEN Number(0)
    ELSE IF Len(digits) > 1 /\ digits[Len(digits)] = "0"
    THEN digitsToNumber(SubSeq(digits, 1, Len(digits) - 1), exp + 1)
    ELSE LET RECURSIVE value(_, _)
             value(i, acc) == IF i > Len(digits) THEN acc
                              ELSE value(i + 1, 10 * acc + DigitValue(digits[i]))
         IN  Norm(value(1, 0), exp)

Negate(x) == [x EXCEPT !.value = -x.value]

\* Variant: only the first digit is read.
parseIntFirstDigit(str) ==
    LET neg == Len(str) >= 1 /\ str[1] = "-"
        from == IF neg THEN 2 ELSE 1
    IN  IF from > Len(str) \/ ~IsDigit(str[from]) THEN NaN
        ELSE Number(IF neg THEN -DigitValue(str[from]) ELSE DigitValue(str[from]))

\* parseInt(str, 10): an optional sign and the digits that follow it; NaN
\* when there is no digit.
parseInt(str) ==
    LET neg == Len(str) >= 1 /\ str[1] = "-"
        from == IF neg THEN 2 ELSE 1
        end == digitsEnd(str, from)
        n == digitsToNumber(SubSeq(str, from, end - 1), 0)
    IN  IF end = from THEN NaN
        ELSE IF neg THEN Negate(n) ELSE n

Hundredths == 100

\* parseFloat(str), in hundredths: sign, integer digits, up to two fraction
\* digits and an exponent e or e+ with its digits; NaN when there is no digit.
parseFloat(str) ==
    LET neg == Len(str) >= 1 /\ str[1] = "-"
        from == IF neg THEN 2 ELSE 1
        intEnd == digitsEnd(str, from)
        int == digitsToNumber(SubSeq(str, from, intEnd - 1), 0).value
        dot == intEnd <= Len(str) /\ str[intEnd] = "."
        fracEnd == IF dot THEN digitsEnd(str, intEnd + 1) ELSE intEnd
        d1 == IF fracEnd > intEnd + 1 THEN DigitValue(str[intEnd + 1]) ELSE 0
        d2 == IF fracEnd > intEnd + 2 THEN DigitValue(str[intEnd + 2]) ELSE 0
        e == fracEnd <= Len(str) /\ str[fracEnd] = "e"
        expFrom == IF e /\ fracEnd + 1 <= Len(str) /\ str[fracEnd + 1] = "+"
                   THEN fracEnd + 2 ELSE fracEnd + 1
        expEnd == IF e THEN digitsEnd(str, expFrom) ELSE expFrom
        exp == IF e /\ expEnd > expFrom
               THEN digitsToNumber(SubSeq(str, expFrom, expEnd - 1), 0).value ELSE 0
        abs == Hundredths * int + 10 * d1 + d2
    IN  IF intEnd = from /\ fracEnd <= intEnd + 1 THEN NaN
        ELSE Norm(IF neg THEN -abs ELSE abs, exp)

\* Math.round(x / den): the nearest integer, halves upwards; den is a power
\* of ten.
MathRound(x, den) ==
    IF x.nan THEN NaN
    ELSE IF x.exp = 0 THEN Number((2 * x.value + den) \div (2 * den))
    ELSE Norm(x.value, x.exp - (Digits(den) - 1))

\* ------------------------------------------ offlineService.ts: rewards
getRewardsPoints(rs) ==
    IF ~rs["rewards-totalPoints"].present \/ rs["rewards-totalPoints"].data = <<>>
    THEN Number(0)
    ELSE parseInt(rs["rewards-totalPoints"].data)

saveRewardsPoints(rs, pts) ==
    [rs EXCEPT !["rewards-totalPoints"] =
                  [present |-> TRUE, wellFormed |-> TRUE, data |-> toString(pts)]]

getHarvestLog(rs) ==
    IF getCachedData(rs, "rewards-harvestLog").isNull THEN <<>>
    ELSE getCachedData(rs, "rewards-harvestLog").data

\* Variant: the new sale is put at the end of the list (push).
addSaleToHarvestLogPush(rs, sale) ==
    setCachedData(rs, "rewards-harvestLog", Append(getHarvestLog(rs), sale))

addSaleToHarvestLog(rs, sale) ==
    setCachedData(rs, "rewards-harvestLog", PushFront(getHarvestLog(rs), sale))

\* ------------------------------------------------ Rewards.tsx: form, prices
\* Values of the quantity input (type number: a decimal string, with an
\* exponent or without, or empty).
Quantities ==
    {<<>>, <<"0">>, <<"-", "1">>, <<"1">>, <<"1", ".", "5">>, <<"1", "2">>, <<"1", "e", "2", "3">>}

\* Prices getMarketPriceForSale returns: any number the backend names.
Prices == {0, 149, 250, 3500}

RevenuePerPoint == 100

\* ---------------------------------------------------------------- Init
InitRewards ==
    /\ rewardsStorage = [k \in {"rewards-totalPoints", "rewards-harvestLog"} |-> Absent]
    /\ points = Number(0)
    /\ harvestLog = <<>>
    /\ rewardsLoading = FALSE
    /\ rewardsError = "null"
    /\ quantity = <<"1">>
    /\ rewardsPc = "idle"
    /\ submitted = <<>>
    /\ sales = 0

\* AppContent before its first render commits; no profile stored yet.
NoLocation == [isNull |-> TRUE, text |-> ""]
NullProfile == [isNull |-> TRUE, defaultLocation |-> ""]

InitApp ==
    /\ storedProfile = Absent
    /\ userLocation = NoLocation
    /\ userProfile = NullProfile
    /\ showLocationModal = FALSE
    /\ hasShownLocationModal = FALSE
    /\ appPc = "start"
    /\ effectDeps = <<NoLocation, NullProfile>>
    /\ detecting = FALSE

\* getAccurateLocation not called yet.
NoError == [isNull |-> TRUE, message |-> <<>>]
NoResponse == [ok |-> FALSE, fails |-> FALSE]
NoPosition == [latitude |-> 0, longitude |-> 0]
NoResult == [kind |-> "none", value |-> <<>>]

InitLocate ==
    /\ locPc = "idle"
    /\ geoError = NoError
    /\ highAccuracyLocation = <<>>
    /\ position = NoPosition
    /\ locResult = NoResult
    /\ ipLookups = 0
    /\ positionOutcome = "none"
    /\ geocodeResponse = NoResponse
    /\ ipResponse = NoResponse

\* sw.js: the script is parsed, no cache exists and no request is handled.
CACHE_NAME == "ai-farmer-assistant-v2"
urlsToCache == {"/", "/index.html", "/vite.svg"}

\* Caches in the order of their creation: earlier versions first.
CacheOrder == <<"ai-farmer-assistant-v1", "other", CACHE_NAME>>
CacheNames == {CacheOrder[i] : i \in 1..Len(CacheOrder)}

Urls == urlsToCache \cup {"/data"}
Requests ==
    {[url |-> "/", method |-> "GET"], [url |-> "/data", method |-> "GET"],
     [url |-> "/data", method |-> "POST"]}

NoCache == [exists |-> FALSE, entries |-> {}]
NoResponseYet == [status |-> 0, type |-> "none", body |-> "none"]
Idle == [pc |-> "none", response |-> NoResponseYet]
NoEvent == [op |-> "none"]

InitWorker ==
    /\ cacheStorage = [name \in CacheNames |-> NoCache]
    /\ swState = "parsed"
    /\ toDelete = {}
    /\ inFlight = [request \in Requests |-> Idle]
    /\ swLog = NoEvent

InitFeatures == InitRewards /\ InitApp /\ InitLocate /\ InitWorker

Init ==
    /\ isOnline \in BOOLEAN
    /\ isSyncing = FALSE
    /\ localStorage = [chatHistory |-> Absent, chatOutbox |-> Absent]
    /\ syncPc = "idle"
    /\ queue = <<>>
    /\ qIdx = 0
    /\ currentChatHistory = <<>>
    /\ userMessageIndex = -1
    /\ fullResponse = <<>>
    /\ firstChunk = TRUE
    /\ messages = <<>>
    /\ loading = FALSE
    /\ error = "null"
    /\ sendPc = "idle"
    /\ userMessage = NoMessage
    /\ outbox = <<>>
    /\ sendResponse = <<>>
    /\ firstChunkReceived = FALSE
    /\ nextId = 0
    /\ files = 0
    /\ crashes = 0
    /\ passLog = <<>>
    /\ dropped = FALSE
    /\ fresh = {}
    /\ calls = 0
    /\ storeLog = NoCall
    /\ InitFeatures

\* The history variables passLog and dropped describe the last step of the
\* resync worker: a step of anything else forgets a finished pass and a
\* dropped request.
Forget ==
    /\ passLog' = IF isSyncing THEN passLog ELSE <<>>
    /\ dropped' = FALSE
    /\ calls' = 0

\* ------------------------------------------ App.tsx: syncOfflineMessages
SetSync(syncing, ls, pc, q, i, hist, umi, fr, fc, msgs, log) ==
    /\ isSyncing' = syncing
    /\ localStorage' = ls
    /\ syncPc' = pc
    /\ queue' = q
    /\ qIdx' = i
    /\ currentChatHistory' = hist
    /\ userMessageIndex' = umi
    /\ fullResponse' = fr
    /\ firstChunk' = fc
    /\ messages' = msgs
    /\ passLog' = log

\* The call sendChatMessage(prompt, file, lang) made for a queued item, as
\* passLog records it: a file is passed when the item holds file data.
BackendCall(item) ==
    [id |-> item.id, result |-> "open", tokens |-> 0, prompt |-> item.prompt,
     file |-> item.fileData # "null", lang |-> item.lang]

\* Variant: the end of the pass saves the transcript but leaves the outbox.
ProcessFromKeepsOutbox(ls, q, i, hist, msgs, log) ==
    IF i < Len(q)
    THEN SetSync(TRUE, ls, "streaming", q, i + 1, hist, findIndex(hist, q[i + 1].id),
                 <<>>, TRUE, msgs,
                 Append(log, BackendCall(q[i + 1])))
    ELSE SetSync(FALSE, saveChatHistory(ls, hist), "idle", <<>>, 0, <<>>, -1,
                 <<>>, TRUE, getChatHistory(saveChatHistory(ls, hist)), log)

\* Variant: the backend calls of all remaining items are started at once and
\* the worker waits for the stream of the last one.
ProcessFromAllAtOnce(ls, q, i, hist, msgs, log) ==
    IF i < Len(q)
    THEN SetSync(TRUE, ls, "streaming", q, Len(q), hist, findIndex(hist, q[Len(q)].id),
                 <<>>, TRUE, msgs,
                 log \o [k \in 1..(Len(q) - i) |-> BackendCall(q[i + k])])
    ELSE SetSync(FALSE, clearMessageQueue(saveChatHistory(ls, hist)), "idle", <<>>, 0, <<>>, -1,
                 <<>>, TRUE, getChatHistory(saveChatHistory(ls, hist)), log)

\* The for loop from item i + 1 of q on: either the next backend stream is
\* opened and the worker waits for its first chunk, or the loop is over and
\* the transcript is saved, the outbox cleared and the guard released.
ProcessFrom(ls, q, i, hist, msgs, log) ==
    IF i < Len(q)
    THEN SetSync(TRUE, ls, "streaming", q, i + 1, hist, findIndex(hist, q[i + 1].id),
                 <<>>, TRUE, msgs,
                 Append(log, BackendCall(q[i + 1])))
    ELSE SetSync(FALSE, clearMessageQueue(saveChatHistory(ls, hist)), "idle", <<>>, 0, <<>>, -1,
                 <<>>, TRUE, getChatHistory(saveChatHistory(ls, hist)), log)

\* Variant: the re-entrancy guard is missing, only connectivity is tested.
syncOfflineMessagesUnguarded(syncing, online, ls, msgs) ==
    IF ~online
    THEN /\ UNCHANGED <<isSyncing, localStorage, syncVars, messages, passLog, fresh>>
         /\ dropped' = TRUE
    ELSE IF Len(getMessageQueue(ls)) = 0
    THEN /\ SetSync(FALSE, ls, "idle", <<>>, 0, <<>>, -1, <<>>, TRUE, msgs, <<>>)
         /\ dropped' = FALSE
         /\ UNCHANGED fresh
    ELSE /\ ProcessFrom(ls, getMessageQueue(ls), 0, getChatHistory(ls), msgs, <<>>)
         /\ dropped' = FALSE
         /\ fresh' = {}

\* The call of syncOfflineMessages, up to its first await.  syncing is the
\* value of isSyncing.current and msgs the transcript shown by the chat view.
\* Variant: no early return on an empty queue; the pass runs to its end,
\* saves the transcript and clears the outbox.
syncOfflineMessagesNoEarlyReturn(syncing, online, ls, msgs) ==
    IF syncing \/ ~online
    THEN /\ UNCHANGED <<isSyncing, localStorage, syncVars, messages, passLog, fresh>>
         /\ dropped' = TRUE
    ELSE /\ ProcessFrom(ls, getMessageQueue(ls), 0, getChatHistory(ls), msgs, <<>>)
         /\ dropped' = FALSE
         /\ fresh' = IF Len(getMessageQueue(ls)) = 0 THEN fresh ELSE {}

\* Variant: the early return on an empty queue leaves the guard set.
syncOfflineMessagesKeepsGuard(syncing, online, ls, msgs) ==
    IF syncing \/ ~online
    THEN /\ UNCHANGED <<isSyncing, localStorage, syncVars, messages, passLog, fresh>>
         /\ dropped' = TRUE
    ELSE IF Len(getMessageQueue(ls)) = 0
    THEN /\ SetSync(TRUE, ls, "idle", <<>>, 0, <<>>, -1, <<>>, TRUE, msgs, <<>>)
         /\ dropped' = FALSE
         /\ UNCHANGED fresh
    ELSE /\ ProcessFrom(ls, getMessageQueue(ls), 0, getChatHistory(ls), msgs, <<>>)
         /\ dropped' = FALSE
         /\ fresh' = {}

syncOfflineMessages(syncing, online, ls, msgs) ==
    IF syncing \/ ~online
    THEN /\ UNCHANGED <<isSyncing, localStorage, syncVars, messages, passLog, fresh>>
         /\ dropped' = TRUE
    ELSE IF Len(getMessageQueue(ls)) = 0
    THEN /\ SetSync(FALSE, ls, "idle", <<>>, 0, <<>>, -1, <<>>, TRUE, msgs, <<>>)
         /\ dropped' = FALSE
         /\ UNCHANGED fresh
    ELSE /\ ProcessFrom(ls, getMessageQueue(ls), 0, getChatHistory(ls), msgs, <<>>)
         /\ dropped' = FALSE
         /\ fresh' = {}

\* useEffect on isOnline: the connectivity observer reports "online".
GoOnline ==
    /\ ~isOnline
    /\ isOnline' = TRUE
    /\ syncOfflineMessages(isSyncing, TRUE, localStorage, messages)
    /\ calls' = 1
    /\ UNCHANGED <<storeLog, featureVars, sendVars, nextId, crashes, files>>

\* Variant: the effect calls syncOfflineMessages on every change of isOnline.
GoOfflineCalls ==
    /\ isOnline
    /\ isOnline' = FALSE
    /\ syncOfflineMessages(isSyncing, FALSE, localStorage, messages)
    /\ calls' = 1
    /\ UNCHANGED <<storeLog, featureVars, sendVars, nextId, crashes, files>>

\* The connectivity observer reports "offline".
GoOffline ==
    /\ isOnline
    /\ isOnline' = FALSE
    /\ Forget
    /\ UNCHANGED <<storeLog, featureVars, isSyncing, localStorage, syncVars, messages, sendVars,
                   nextId, crashes, fresh, files>>

ModelMessage(id) ==
    [id |-> ModelId(id), role |-> "model", text |-> <<>>, status |-> "undefined",
     fileName |-> "undefined"]

LogLast(log, result, n) ==
    [log EXCEPT ![Len(log)] = [@ EXCEPT !.result = result, !.tokens = @ + n]]

\* One chunk arrives on the stream of the current queued item.
SyncToken ==
    /\ syncPc = "streaming"
    /\ Len(fullResponse) < MaxTokens
    /\ LET chunk == Chunk(queue[qIdx].id, Len(fullResponse) + 1)
           fr == fullResponse \o <<chunk>>
           pushed == IF firstChunk
                     THEN Push(currentChatHistory, ModelMessage(queue[qIdx].id))
                     ELSE currentChatHistory
           isModel == Len(pushed) > 0 /\ pushed[Len(pushed)].role = "model"
           hist == IF isModel THEN [pushed EXCEPT ![Len(pushed)].text = fr] ELSE pushed
           ls == IF isModel THEN saveChatHistory(localStorage, hist) ELSE localStorage
       IN  SetSync(TRUE, ls, "streaming", queue, qIdx, hist, userMessageIndex, fr, FALSE,
                   IF isModel THEN getChatHistory(ls) ELSE messages,
                   LogLast(passLog, "open", 1))
    /\ dropped' = FALSE
    /\ calls' = 0
    /\ UNCHANGED <<storeLog, featureVars, isOnline, sendVars, nextId, crashes, fresh, files>>

\* Variant: an item whose stream ends without a chunk gets an empty model message.
SyncEndAlwaysReplies ==
    /\ syncPc = "streaming"
    /\ ProcessFrom(localStorage, queue, qIdx,
                   SetStatus(IF firstChunk
                             THEN Push(currentChatHistory, ModelMessage(queue[qIdx].id))
                             ELSE currentChatHistory,
                             userMessageIndex, "sent"),
                   messages, LogLast(passLog, "ok", 0))
    /\ dropped' = FALSE
    /\ calls' = 0
    /\ UNCHANGED <<storeLog, featureVars, isOnline, sendVars, nextId, crashes, fresh, files>>

\* The stream of the current queued item ends normally.
SyncEnd ==
    /\ syncPc = "streaming"
    /\ ProcessFrom(localStorage, queue, qIdx,
                   SetStatus(currentChatHistory, userMessageIndex, "sent"),
                   messages, LogLast(passLog, "ok", 0))
    /\ dropped' = FALSE
    /\ calls' = 0
    /\ UNCHANGED <<storeLog, featureVars, isOnline, sendVars, nextId, crashes, fresh, files>>

\* Variant: the error leaves the loop, the rest of the queue is skipped and
\* the guard stays set.
SyncFailAborts ==
    /\ syncPc = "streaming"
    /\ SetSync(TRUE, localStorage, "idle", queue, qIdx,
               SetStatus(currentChatHistory, userMessageIndex, "failed"), userMessageIndex,
               fullResponse, firstChunk, messages, LogLast(passLog, "failed", 0))
    /\ dropped' = FALSE
    /\ calls' = 0
    /\ UNCHANGED <<storeLog, featureVars, isOnline, sendVars, nextId, crashes, fresh, files>>

\* Variant: the catch block takes the partial reply out of the transcript.
SyncFailDropsPartial ==
    /\ syncPc = "streaming"
    /\ ProcessFrom(localStorage, queue, qIdx,
                   SetStatus(IF firstChunk THEN currentChatHistory
                             ELSE SubSeq(currentChatHistory, 1, Len(currentChatHistory) - 1),
                             userMessageIndex, "failed"),
                   messages, LogLast(passLog, "failed", 0))
    /\ dropped' = FALSE
    /\ calls' = 0
    /\ UNCHANGED <<storeLog, featureVars, isOnline, sendVars, nextId, crashes, fresh, files>>

\* The stream of the current queued item throws (catch block).
SyncFail ==
    /\ syncPc = "streaming"
    /\ ProcessFrom(localStorage, queue, qIdx,
                   SetStatus(currentChatHistory, userMessageIndex, "failed"),
                   messages, LogLast(passLog, "failed", 0))
    /\ dropped' = FALSE
    /\ calls' = 0
    /\ UNCHANGED <<storeLog, featureVars, isOnline, sendVars, nextId, crashes, fresh, files>>

\* ------------------------------------------------ AIChat.tsx: sendMessage
SetSend(ld, err, pc, um, ob, fr, fcr) ==
    /\ loading' = ld
    /\ error' = err
    /\ sendPc' = pc
    /\ userMessage' = um
    /\ outbox' = ob
    /\ sendResponse' = fr
    /\ firstChunkReceived' = fcr

\* Variant: the message is marked sent whatever the connectivity.
NewUserMessageSent(prompt, file, online) ==
    [id |-> UserId(nextId + 1), role |-> "user", text |-> <<prompt>>,
     status |-> "sent",
     fileName |-> IF file THEN "name" ELSE "undefined"]

NewUserMessage(prompt, file, online) ==
    [id |-> UserId(nextId + 1), role |-> "user", text |-> <<prompt>>,
     status |-> IF online THEN "sent" ELSE "pending",
     fileName |-> IF file THEN "name" ELSE "undefined"]

\* Variant: the stored outbox is replaced by the new item alone.
EnqueueAlone(ls, ob, message, fileData) ==
    setCachedData(ls, "chatOutbox", <<QueuedMessage(message, fileData)>>)

\* addMessageToQueue after the file conversion (or without a file).
Enqueue(ls, ob, message, fileData) ==
    setCachedData(ls, "chatOutbox", Push(ob, QueuedMessage(message, fileData)))

\* sendMessage while the observed state is offline, up to the await of
\* fileToBase64 inside addMessageToQueue (to its end when no file is attached).
SendOffline(prompt, file) ==
    /\ sendPc = "idle"
    /\ ~isOnline
    /\ nextId < MaxMsgs
    /\ LET um == NewUserMessage(prompt, file, FALSE)
           newMessages == Append(messages, um)
           ls == saveChatHistory(localStorage, newMessages)
           ob == getMessageQueue(ls)
       IN  /\ messages' = getChatHistory(ls)
           /\ IF file
              THEN /\ localStorage' = ls
                   /\ SetSend(TRUE, "null", "converting", um, ob, <<>>, FALSE)
              ELSE /\ localStorage' = Enqueue(ls, ob, um, "null")
                   /\ SetSend(FALSE, "null", "idle", NoMessage, <<>>, <<>>, FALSE)
           /\ fresh' = IF isSyncing THEN fresh ELSE fresh \cup {um.id}
    /\ nextId' = nextId + 1
    /\ file => crashes + files < MaxDisturbances
    /\ files' = IF file THEN files + 1 ELSE files
    /\ Forget
    /\ UNCHANGED <<storeLog, featureVars, isOnline, isSyncing, syncVars, crashes>>

\* Variant: a rejected conversion drops the item and shows an error.
ConvertDoneDrops(ok) ==
    /\ sendPc = "converting"
    /\ localStorage' = IF ok THEN Enqueue(localStorage, outbox, userMessage, "data")
                            ELSE localStorage
    /\ SetSend(FALSE, IF ok THEN error ELSE "err", "idle", NoMessage, <<>>, <<>>, FALSE)
    /\ Forget
    /\ UNCHANGED <<storeLog, featureVars, isOnline, isSyncing, syncVars, messages, nextId, crashes, fresh,
                   files>>

\* fileToBase64 settles: resolved (ok) or rejected; the item is queued either way.
ConvertDone(ok) ==
    /\ sendPc = "converting"
    /\ localStorage' = Enqueue(localStorage, outbox, userMessage, IF ok THEN "data" ELSE "null")
    /\ SetSend(FALSE, error, "idle", NoMessage, <<>>, <<>>, FALSE)
    /\ Forget
    /\ UNCHANGED <<storeLog, featureVars, isOnline, isSyncing, syncVars, messages, nextId, crashes, fresh,
                   files>>

\* sendMessage while the observed state is online, up to the first await of the stream.
SendOnline(prompt, file) ==
    /\ sendPc = "idle"
    /\ isOnline
    /\ nextId < MaxMsgs
    /\ LET um == NewUserMessage(prompt, file, TRUE)
           ls == saveChatHistory(localStorage, Append(messages, um))
       IN  /\ localStorage' = ls
           /\ messages' = getChatHistory(ls)
           /\ SetSend(TRUE, "null", "streaming", um, <<>>, <<>>, FALSE)
    /\ nextId' = nextId + 1
    /\ file => crashes + files < MaxDisturbances
    /\ files' = IF file THEN files + 1 ELSE files
    /\ Forget
    /\ UNCHANGED <<storeLog, featureVars, isOnline, isSyncing, syncVars, crashes, fresh>>

\* One chunk arrives on the stream of the interactive send.
SendToken ==
    /\ sendPc = "streaming"
    /\ Len(sendResponse) < MaxTokens
    /\ LET chunk == Chunk(userMessage.id, Len(sendResponse) + 1)
           fr == sendResponse \o <<chunk>>
           updated == IF firstChunkReceived THEN messages
                      ELSE Push(messages, ModelMessage(userMessage.id))
           newMessages == IF Len(updated) > 0 /\ updated[Len(updated)].role = "model"
                          THEN [updated EXCEPT ![Len(updated)].text = fr]
                          ELSE updated
           ls == saveChatHistory(localStorage, newMessages)
       IN  /\ localStorage' = ls
           /\ messages' = getChatHistory(ls)
           /\ SetSend(FALSE, error, "streaming", userMessage, <<>>, fr, TRUE)
    /\ Forget
    /\ UNCHANGED <<storeLog, featureVars, isOnline, isSyncing, syncVars, nextId, crashes, fresh, files>>

\* The stream of the interactive send ends normally.
SendEnd ==
    /\ sendPc = "streaming"
    /\ SetSend(FALSE, error, "idle", NoMessage, <<>>, <<>>, FALSE)
    /\ Forget
    /\ UNCHANGED <<storeLog, featureVars, isOnline, isSyncing, localStorage, syncVars, messages, nextId, crashes,
                   fresh, files>>

\* The stream of the interactive send throws.
SendFail ==
    /\ sendPc = "streaming"
    /\ SetSend(FALSE, "err", "idle", NoMessage, <<>>, <<>>, FALSE)
    /\ Forget
    /\ UNCHANGED <<storeLog, featureVars, isOnline, isSyncing, localStorage, syncVars, messages, nextId, crashes,
                   fresh, files>>

\* ------------------------------------------------------------ page reload
\* The page crashes or is reloaded: everything in memory is lost, the two
\* localStorage keys survive, the components mount again and the effect on
\* isOnline calls syncOfflineMessages when the browser is online.
Reload ==
    /\ crashes + files < MaxDisturbances
    /\ crashes' = crashes + 1
    /\ SetSend(FALSE, "null", "idle", NoMessage, <<>>, <<>>, FALSE)
    /\ IF isOnline
       THEN syncOfflineMessages(FALSE, TRUE, localStorage, getChatHistory(localStorage))
       ELSE /\ SetSync(FALSE, localStorage, "idle", <<>>, 0, <<>>, -1, <<>>, TRUE,
                       getChatHistory(localStorage), <<>>)
            /\ dropped' = FALSE
            /\ UNCHANGED fresh
    /\ calls' = IF isOnline THEN 1 ELSE 0
    /\ UNCHANGED <<storeLog, featureVars, isOnline, nextId, files>>

Next ==
    \/ GoOnline
    \/ GoOffline
    \/ SyncToken
    \/ SyncEnd
    \/ SyncFail
    \/ \E prompt \in Prompts, file \in BOOLEAN : SendOffline(prompt, file)
    \/ \E ok \in BOOLEAN : ConvertDone(ok)
    \/ \E prompt \in Prompts, file \in BOOLEAN : SendOnline(prompt, file)
    \/ SendToken
    \/ SendEnd
    \/ SendFail
    \/ Reload

Spec == Init /\ [][Next]_vars

\* Every backend stream of the resync worker terminates: sendChatMessage
\* returns or throws.
FairSpec == Spec /\ WF_vars(SyncEnd \/ SyncFail)

\* ------------------------------- offlineService.ts: the storage functions
\* The storage functions on their own, over every content the two keys can
\* hold (nothing, a string that is not JSON, a stored list) and with a
\* storage that accepts or refuses a write.
StoredUser ==
    [id |-> UserId(1), role |-> "user", text |-> <<"hello">>, status |-> "pending",
     fileName |-> "undefined"]

StoredModel == [ModelMessage(UserId(1)) EXCEPT !.text = <<Chunk(UserId(1), 1)>>]

StoreLists == {<<>>, <<StoredUser>>, <<StoredUser, StoredModel>>}

StoreItems(lists) == {Absent, Unparsable} \cup {JSONstringify(list) : list \in lists}

memoryVars ==
    <<isOnline, isSyncing, syncPc, qIdx, currentChatHistory, userMessageIndex, fullResponse,
      firstChunk, sendVars, nextId, crashes, passLog, dropped, fresh, files, calls,
      featureVars>>

InitStore ==
    /\ isOnline = FALSE
    /\ isSyncing = FALSE
    /\ localStorage \in [Keys -> StoreItems(StoreLists)]
    /\ localStorage["chatOutbox"] \in StoreItems({<<>>})
    /\ syncPc = "idle"
    /\ queue = <<>>
    /\ qIdx = 0
    /\ currentChatHistory = <<>>
    /\ userMessageIndex = -1
    /\ fullResponse = <<>>
    /\ firstChunk = TRUE
    /\ messages = <<>>
    /\ loading = FALSE
    /\ error = "null"
    /\ sendPc = "idle"
    /\ userMessage = NoMessage
    /\ outbox = <<>>
    /\ sendResponse = <<>>
    /\ firstChunkReceived = FALSE
    /\ nextId = 0
    /\ files = 0
    /\ crashes = 0
    /\ passLog = <<>>
    /\ dropped = FALSE
    /\ fresh = {}
    /\ calls = 0
    /\ storeLog = NoCall
    /\ InitFeatures

\* saveChatHistory(list): setCachedData, then the storage event, on which
\* handleStorageChange loads the stored transcript into the view.
StoreSave(list, ok) ==
    /\ LET r == setCachedDataWhen(localStorage, "chatHistory", list, ok)
       IN  /\ localStorage' = r.ls
           /\ messages' = getChatHistory(r.ls)
           /\ storeLog' = [op |-> "set", ok |-> ok, raised |-> r.raised]
    /\ UNCHANGED <<queue, memoryVars>>

\* addMessageToQueue without a file: the outbox is read, the item pushed and
\* the list written.
StoreEnqueue(ok) ==
    /\ Len(getMessageQueue(localStorage)) < MaxStored
    /\ LET r == setCachedDataWhen(localStorage, "chatOutbox",
                                  Push(getMessageQueue(localStorage),
                                       QueuedMessage(StoredUser, "null")), ok)
       IN  /\ localStorage' = r.ls
           /\ storeLog' = [op |-> "set", ok |-> ok, raised |-> r.raised]
    /\ UNCHANGED <<messages, queue, memoryVars>>

\* getChatHistory and getMessageQueue, as the view and the drain call them.
StoreLoad ==
    /\ messages' = getChatHistory(localStorage)
    /\ queue' = getMessageQueue(localStorage)
    /\ storeLog' = [op |-> "get", ok |-> TRUE,
                    raised |-> \E key \in Keys : getCachedData(localStorage, key).raised]
    /\ UNCHANGED <<localStorage, memoryVars>>

\* Something else than setCachedData writes a string that is not JSON.
StoreGarble(key) ==
    /\ localStorage' = [localStorage EXCEPT ![key] = Unparsable]
    /\ storeLog' = NoCall
    /\ UNCHANGED <<messages, queue, memoryVars>>

\* clearMessageQueue.
StoreClear ==
    /\ localStorage' = clearMessageQueue(localStorage)
    /\ storeLog' = NoCall
    /\ UNCHANGED <<messages, queue, memoryVars>>

NextStore ==
    \/ \E list \in StoreLists, ok \in BOOLEAN : StoreSave(list, ok)
    \/ \E ok \in BOOLEAN : StoreEnqueue(ok)
    \/ StoreLoad
    \/ \E key \in Keys : StoreGarble(key)
    \/ StoreClear

SpecStore == InitStore /\ [][NextStore]_vars

\* ------------------------------------------------ Rewards.tsx: handleSubmit
\* The rewards view on its own; the selected crop, location and unit and the
\* success message are not modelled.
chatVars ==
    <<isSyncing, localStorage, syncVars, messages, sendVars, nextId, crashes, passLog, dropped,
      fresh, files, calls, storeLog>>

besideRewards == <<chatVars, startVars, locateVars, workerVars>>

SetRewards(rs, pts, log, ld, err, qty, pc, sub, n) ==
    /\ rewardsStorage' = rs
    /\ points' = pts
    /\ harvestLog' = log
    /\ rewardsLoading' = ld
    /\ rewardsError' = err
    /\ quantity' = qty
    /\ rewardsPc' = pc
    /\ submitted' = sub
    /\ sales' = n

\* The view mounts (again) with no submission pending: the effect loads the
\* stored total and log.
RewardsMount ==
    /\ rewardsPc = "idle"
    /\ SetRewards(rewardsStorage, getRewardsPoints(rewardsStorage), getHarvestLog(rewardsStorage),
                  FALSE, "null", <<"1">>, "idle", <<>>, sales)
    /\ UNCHANGED <<isOnline, besideRewards>>

\* The user edits the quantity input.
SetQuantity(value) ==
    /\ quantity' = value
    /\ UNCHANGED <<rewardsStorage, points, harvestLog, rewardsLoading, rewardsError, rewardsPc,
                   submitted, sales, isOnline, besideRewards>>

\* The connectivity observer reports a change while the rewards view is open.
RewardsConnectivity ==
    /\ isOnline' = ~isOnline
    /\ UNCHANGED <<rewardsVars, besideRewards>>

\* handleSubmit up to the await of getMarketPriceForSale.
SubmitSale ==
    /\ rewardsPc = "idle"
    /\ IF ~isOnline
       THEN SetRewards(rewardsStorage, points, harvestLog, rewardsLoading, "offline", quantity,
                       "idle", <<>>, sales)
       ELSE SetRewards(rewardsStorage, points, harvestLog, TRUE, "null", quantity,
                       "pricing", quantity, sales)
    /\ UNCHANGED <<isOnline, besideRewards>>

\* getMarketPriceForSale returns price: the rest of the try block.
PriceArrives(price) ==
    /\ rewardsPc = "pricing"
    /\ LET numQuantity == parseFloat(submitted)
           revenue == Times(price, numQuantity)
           pointsEarned == MathRound(revenue, Hundredths * RevenuePerPoint)
           newSale == [id |-> sales + 1, quantity |-> numQuantity,
                       calculatedRevenue |-> revenue, pointsEarned |-> pointsEarned]
           logged == addSaleToHarvestLog(rewardsStorage, newSale)
           newTotalPoints == Add(getRewardsPoints(logged), pointsEarned)
       IN  IF numQuantity.nan \/ numQuantity.value <= 0
           THEN SetRewards(rewardsStorage, points, harvestLog, FALSE, "invalidQuantity",
                           quantity, "idle", <<>>, sales)
           ELSE /\ sales < MaxSales
                /\ SetRewards(saveRewardsPoints(logged, newTotalPoints), newTotalPoints,
                              PushFront(harvestLog, newSale), FALSE, rewardsError, <<"1">>,
                              "idle", <<>>, sales + 1)
    /\ UNCHANGED <<isOnline, besideRewards>>

\* getMarketPriceForSale throws.
PriceFails ==
    /\ rewardsPc = "pricing"
    /\ SetRewards(rewardsStorage, points, harvestLog, FALSE, "priceError", quantity, "idle",
                  <<>>, sales)
    /\ UNCHANGED <<isOnline, besideRewards>>

NextRewards ==
    \/ RewardsMount
    \/ \E value \in Quantities : SetQuantity(value)
    \/ RewardsConnectivity
    \/ SubmitSale
    \/ \E price \in Prices : PriceArrives(price)
    \/ PriceFails

SpecRewards == Init /\ [][NextRewards]_vars

\* ------------------------------------------- App.tsx: location at start
\* AppContent on its own: the stored profile, the user location and the
\* location modal.
Location(text) == [isNull |-> FALSE, text |-> text]
Profile(defaultLocation) == [isNull |-> FALSE, defaultLocation |-> defaultLocation]

\* Location names; the empty text is what an emptied location input holds.
LocationNames == {"Pune", "Delhi"}
DefaultLocations == {"", "Pune"}

StoredProfiles ==
    {Absent, Unparsable}
        \cup {[present |-> TRUE, wellFormed |-> TRUE, data |-> Profile(d)] : d \in DefaultLocations}

\* !value for a string or null.
Falsy(location) == location.isNull \/ location.text = ""

\* userProfileService.ts
getUserProfile(item) ==
    IF ~item.present THEN NullProfile
    ELSE IF ~item.wellFormed THEN NullProfile
    ELSE item.data

saveUserProfile(item, profile) ==
    [present |-> TRUE, wellFormed |-> TRUE, data |-> profile]

refreshProfile == userProfile' = getUserProfile(storedProfile)

\* userProfile?.defaultLocation is truthy.
HasDefaultLocation(profile) == ~profile.isNull /\ profile.defaultLocation # ""

besideApp == <<isOnline, chatVars, rewardsVars, locateVars, workerVars>>

\* The effect on [userLocation, userProfile], run with the values of the
\* render it belongs to; a state it sets that the same step sets otherwise is
\* left to that step.
LocationEffect(location, profile) ==
    IF Falsy(location) /\ ~hasShownLocationModal
    THEN /\ hasShownLocationModal' = TRUE
         /\ IF HasDefaultLocation(profile)
            THEN /\ userLocation' = Location(profile.defaultLocation)
                 /\ UNCHANGED showLocationModal
            ELSE /\ showLocationModal' = TRUE
                 /\ UNCHANGED userLocation
    ELSE UNCHANGED <<hasShownLocationModal, userLocation, showLocationModal>>

\* A session before this one left profile under the profile key.
EarlierSession(item) ==
    /\ appPc = "start"
    /\ storedProfile = Absent
    /\ item # Absent
    /\ storedProfile' = item
    /\ UNCHANGED <<userLocation, userProfile, showLocationModal, hasShownLocationModal, appPc,
                   effectDeps, detecting, besideApp>>

\* The first render commits and its effects run in the order of the source:
\* the refreshProfile effect, then the location effect, both with the state
\* of the first render.
AppMount ==
    /\ appPc = "start"
    /\ appPc' = "mounted"
    /\ refreshProfile
    /\ LocationEffect(userLocation, userProfile)
    /\ effectDeps' = <<userLocation, userProfile>>
    /\ UNCHANGED <<storedProfile, detecting, besideApp>>

\* A later render commits with a changed dependency: the location effect
\* runs again.
AppRender ==
    /\ appPc = "mounted"
    /\ effectDeps # <<userLocation, userProfile>>
    /\ LocationEffect(userLocation, userProfile)
    /\ effectDeps' = <<userLocation, userProfile>>
    /\ UNCHANGED <<storedProfile, userProfile, appPc, detecting, besideApp>>

\* A feature's location input calls onLocationChange.
OnLocationChange(text) ==
    /\ appPc = "mounted"
    /\ userLocation' = Location(text)
    /\ UNCHANGED <<storedProfile, userProfile, showLocationModal, hasShownLocationModal, appPc,
                   effectDeps, detecting, besideApp>>

\* fetchAndSetLocation up to the await of getAccurateLocation.
DetectLocation ==
    /\ appPc = "mounted"
    /\ ~detecting
    /\ detecting' = TRUE
    /\ UNCHANGED <<storedProfile, userLocation, userProfile, showLocationModal,
                   hasShownLocationModal, appPc, effectDeps, besideApp>>

\* getAccurateLocation returns name, or throws (ok false).
DetectDone(ok, name) ==
    /\ appPc = "mounted"
    /\ detecting
    /\ detecting' = FALSE
    /\ IF ok
       THEN userLocation' = Location(name) /\ showLocationModal' = FALSE
       ELSE UNCHANGED <<userLocation, showLocationModal>>
    /\ UNCHANGED <<storedProfile, userProfile, hasShownLocationModal, appPc, effectDeps,
                   besideApp>>

handleManualLocation ==
    /\ appPc = "mounted"
    /\ showLocationModal
    /\ showLocationModal' = FALSE
    /\ UNCHANGED <<storedProfile, userLocation, userProfile, hasShownLocationModal, appPc,
                   effectDeps, detecting, besideApp>>

\* Profile.tsx handleSubmit: saveUserProfile, then onProfileUpdate.
ProfileSubmit(defaultLocation) ==
    /\ appPc = "mounted"
    /\ storedProfile' = saveUserProfile(storedProfile, Profile(defaultLocation))
    /\ userProfile' = getUserProfile(storedProfile')
    /\ UNCHANGED <<userLocation, showLocationModal, hasShownLocationModal, appPc, effectDeps,
                   detecting, besideApp>>

\* The page is loaded again: a new session with the stored profile kept.
AppReload ==
    /\ appPc = "mounted"
    /\ userLocation' = NoLocation
    /\ userProfile' = NullProfile
    /\ showLocationModal' = FALSE
    /\ hasShownLocationModal' = FALSE
    /\ appPc' = "start"
    /\ effectDeps' = <<NoLocation, NullProfile>>
    /\ detecting' = FALSE
    /\ UNCHANGED <<storedProfile, besideApp>>

NextApp ==
    \/ \E item \in StoredProfiles : EarlierSession(item)
    \/ AppMount
    \/ AppRender
    \/ \E text \in LocationNames \cup {""} : OnLocationChange(text)
    \/ DetectLocation
    \/ \E ok \in BOOLEAN, name \in LocationNames : DetectDone(ok, name)
    \/ handleManualLocation
    \/ \E d \in DefaultLocations : ProfileSubmit(d)
    \/ AppReload

SpecApp == Init /\ [][NextApp]_vars

\* ------------------------------------ locationService.ts: getAccurateLocation
\* A location name is the sequence of its characters; an error message is the
\* sequence of its words.  Coordinates are held in hundredths of a degree.
Upper ==
    <<"A", "B", "C", "D", "E", "F", "G", "H", "I", "J", "K", "L", "M", "N", "O", "P", "Q", "R",
      "S", "T", "U", "V", "W", "X", "Y", "Z">>
Lower ==
    <<"a", "b", "c", "d", "e", "f", "g", "h", "i", "j", "k", "l", "m", "n", "o", "p", "q", "r",
      "s", "t", "u", "v", "w", "x", "y", "z">>

\* Variant: the name is compared as it is.
toLowerCaseIdentity(str) == str

toLowerCase(str) ==
    [i \in 1..Len(str) |->
        IF \E k \in 1..Len(Upper) : Upper[k] = str[i]
        THEN Lower[CHOOSE k \in 1..Len(Upper) : Upper[k] = str[i]]
        ELSE str[i]]

\* String.prototype.includes
includes(str, part) ==
    \E i \in 0..(Len(str) - Len(part)) : SubSeq(str, i + 1, i + Len(part)) = part

\* Array.prototype.filter(Boolean) on strings, and join.
RECURSIVE filterBoolean(_)
filterBoolean(parts) ==
    IF parts = <<>> THEN <<>>
    ELSE IF parts[1] = <<>> THEN filterBoolean(Tail(parts))
    ELSE <<parts[1]>> \o filterBoolean(Tail(parts))

RECURSIVE join(_, _)
join(parts, separator) ==
    IF parts = <<>> THEN <<>>
    ELSE IF Len(parts) = 1 THEN parts[1]
    ELSE parts[1] \o separator \o join(Tail(parts), separator)

\* Number.prototype.toFixed(2) of a number of hundredths.
toFixed2(h) ==
    (IF h < 0 THEN <<"-">> ELSE <<>>)
        \o natToString(Abs(h) \div Hundredths) \o <<".">>
        \o <<DigitChar[((Abs(h) % Hundredths) \div 10) + 1], DigitChar[(Abs(h) % 10) + 1]>>

LatLon(lat, lon) ==
    <<"L", "a", "t", ":", " ">> \o toFixed2(lat) \o <<",", " ", "L", "o", "n", ":", " ">>
        \o toFixed2(lon)

\* String.prototype.split(',') : the parts before and after the first comma.
RECURSIVE splitComma(_)
splitComma(str) ==
    IF \E i \in 1..Len(str) : str[i] = ","
    THEN LET i == CHOOSE k \in 1..Len(str) :
                    str[k] = "," /\ \A j \in 1..(k - 1) : str[j] # ","
         IN  <<SubSeq(str, 1, i - 1)>> \o splitComma(SubSeq(str, i + 1, Len(str)))
    ELSE <<str>>

\* The error messages of getCurrentPosition and getAccurateLocation.
NotSupportedMessage == <<"Geolocation", "is", "not", "supported", "by", "your", "browser", ".">>
BlockedMessage ==
    <<"Location", "access", "has", "been", "blocked", ".", "Please", "enable", "it", "in",
      "your", "browser", "settings", ".">>
DeniedMessage ==
    <<"You", "denied", "the", "location", "request", ".", "You", "can", "enter", "your",
      "location", "manually", "or", "try", "again", ".">>
UnavailableMessage == <<"Location", "information", "is", "unavailable", ".">>
TimeoutMessage == <<"The", "request", "to", "get", "user", "location", "timed", "out", ".">>
UnknownMessage == <<"An", "unknown", "error", "occurred", ".">>
ManualMessage ==
    <<"Could", "not", "determine", "your", "location", "automatically", ".", "Please",
      "enter", "it", "manually", ".">>

Error(message) == [isNull |-> FALSE, message |-> message]

\* The answers of navigator.geolocation: a position or an error code.
PositionErrors == {"PERMISSION_DENIED", "POSITION_UNAVAILABLE", "TIMEOUT", "OTHER"}
Positions == {[latitude |-> 1852, longitude |-> 7386]}

errorMessage(code) ==
    IF code = "PERMISSION_DENIED" THEN DeniedMessage
    ELSE IF code = "POSITION_UNAVAILABLE" THEN UnavailableMessage
    ELSE IF code = "TIMEOUT" THEN TimeoutMessage
    ELSE UnknownMessage

\* The answers of the Permissions API: a state, or the query throws.
PermissionAnswers == {"granted", "prompt", "denied", "throws"}

\* Responses of the reverse geocoding service: the request fails, the status
\* is not ok, or a body with city, principalSubdivision and countryName.
Cities ==
    {<<>>, <<"P", "u", "n", "e">>, <<"K", "o", "l", "k", "a", "t", "a">>,
     <<"B", "A", "N", "G", "A", "L", "O", "R", "E">>,
     <<"N", "e", "w", " ", "B", "e", "n", "g", "a", "l", "u", "r", "u">>}
Subdivisions == {<<>>, <<"M", "H">>}
Countries == {<<>>, <<"I", "n", "d", "i", "a">>}

GeocodeResponses ==
    {[ok |-> FALSE, fails |-> TRUE], [ok |-> FALSE, fails |-> FALSE]}
        \cup {[ok |-> TRUE, fails |-> FALSE, city |-> c, principalSubdivision |-> p,
               countryName |-> n] : c \in Cities, p \in Subdivisions, n \in Countries}

\* coordsToLocationName: the name of the response, or the coordinates when
\* the request fails or names nothing.
coordsToLocationName(lat, lon, response) ==
    IF response.fails \/ ~response.ok THEN LatLon(lat, lon)
    ELSE LET parts == filterBoolean(<<response.city, response.principalSubdivision,
                                      response.countryName>>)
         IN  IF Len(parts) > 0 THEN join(parts, <<",", " ">>) ELSE LatLon(lat, lon)

\* Responses of the IP lookup service, with city, region, country and loc.
Locs == {<<>>, <<"1", "8", ".", "5", "2", ",", "7", "3", ".", "8", "6">>}

IpResponses ==
    {[ok |-> FALSE, fails |-> TRUE], [ok |-> FALSE, fails |-> FALSE]}
        \cup {[ok |-> TRUE, fails |-> FALSE, city |-> c, region |-> r, country |-> n, loc |-> l] :
                c \in {<<>>, <<"P", "u", "n", "e">>}, r \in Subdivisions, n \in Countries,
                l \in Locs}

\* getLocationByIp: [threw, value].
getLocationByIp(response) ==
    IF response.fails \/ ~response.ok THEN [threw |-> TRUE, value |-> <<>>]
    ELSE IF response.city # <<>> /\ response.region # <<>> /\ response.country # <<>>
    THEN [threw |-> FALSE,
          value |-> response.city \o <<",", " ">> \o response.region \o <<",", " ">>
                        \o response.country]
    ELSE IF response.loc # <<>>
    THEN [threw |-> FALSE,
          value |-> LatLon(parseFloat(splitComma(response.loc)[1]).value,
                           parseFloat(splitComma(response.loc)[2]).value)]
    ELSE [threw |-> TRUE, value |-> <<>>]

simulatedLocations ==
    <<<<"k", "o", "l", "k", "a", "t", "a">>, <<"b", "e", "n", "g", "a", "l", "u", "r", "u">>,
      <<"b", "a", "n", "g", "a", "l", "o", "r", "e">>>>

isSimulated(name) ==
    \E i \in 1..Len(simulatedLocations) : includes(toLowerCase(name), simulatedLocations[i])

besideLocate == <<isOnline, chatVars, rewardsVars, startVars, workerVars>>

Returned(value) == [kind |-> "returned", value |-> value]
Thrown(message) == [kind |-> "thrown", value |-> message]

\* Step 3 of getAccurateLocation up to its await: the IP lookup is requested.
StartIpLookup ==
    /\ ipLookups' = ipLookups + 1
    /\ locPc' = "ip"
    /\ UNCHANGED <<locResult, ipResponse>>

\* getAccurateLocation is called: getCurrentPosition up to its first await,
\* or its throw when the browser has no geolocation.
LocateStart(geolocation, permissions) ==
    /\ locPc = "idle"
    /\ IF ~geolocation
       THEN /\ geoError' = Error(NotSupportedMessage)
            /\ positionOutcome' = "unsupported"
            /\ StartIpLookup
       ELSE /\ locPc' = IF permissions THEN "permission" ELSE "position"
            /\ UNCHANGED <<geoError, positionOutcome, locResult, ipLookups, ipResponse>>
    /\ UNCHANGED <<highAccuracyLocation, position, geocodeResponse, besideLocate>>

\* navigator.permissions.query answers; the error thrown for a denied state
\* is caught where it is thrown.
PermissionAnswer(answer) ==
    /\ locPc = "permission"
    /\ locPc' = "position"
    /\ UNCHANGED <<geoError, highAccuracyLocation, position, locResult, ipLookups,
                   positionOutcome, geocodeResponse, ipResponse, besideLocate>>

\* navigator.geolocation.getCurrentPosition calls its success callback.
PositionFound(coords) ==
    /\ locPc = "position"
    /\ position' = coords
    /\ positionOutcome' = "success"
    /\ locPc' = "geocode"
    /\ UNCHANGED <<geoError, highAccuracyLocation, locResult, ipLookups, geocodeResponse,
                   ipResponse, besideLocate>>

\* navigator.geolocation.getCurrentPosition calls its error callback.
PositionError(code) ==
    /\ locPc = "position"
    /\ geoError' = Error(errorMessage(code))
    /\ positionOutcome' = code
    /\ StartIpLookup
    /\ UNCHANGED <<highAccuracyLocation, position, geocodeResponse, besideLocate>>

\* coordsToLocationName settles; step 2 of getAccurateLocation.
GeocodeAnswer(response) ==
    /\ locPc = "geocode"
    /\ geocodeResponse' = response
    /\ highAccuracyLocation' = coordsToLocationName(position.latitude, position.longitude, response)
    /\ IF highAccuracyLocation' # <<>> /\ ~isSimulated(highAccuracyLocation')
       THEN /\ locResult' = Returned(highAccuracyLocation')
            /\ locPc' = "done"
            /\ UNCHANGED <<ipLookups, ipResponse>>
       ELSE StartIpLookup
    /\ UNCHANGED <<geoError, position, positionOutcome, besideLocate>>

\* getLocationByIp settles; the rest of step 3.
IpAnswer(response) ==
    /\ locPc = "ip"
    /\ ipResponse' = response
    /\ locPc' = "done"
    /\ locResult' =
         IF ~getLocationByIp(response).threw THEN Returned(getLocationByIp(response).value)
         ELSE IF ~geoError.isNull
                 /\ (includes(geoError.message, <<"denied">>)
                     \/ includes(geoError.message, <<"blocked">>))
         THEN Thrown(geoError.message)
         ELSE Thrown(ManualMessage)
    /\ UNCHANGED <<geoError, highAccuracyLocation, position, ipLookups, positionOutcome,
                   geocodeResponse, besideLocate>>

\* The caller has its answer; the function can be called again.
LocateReturn ==
    /\ locPc = "done"
    /\ locPc' = "idle"
    /\ geoError' = NoError
    /\ highAccuracyLocation' = <<>>
    /\ position' = NoPosition
    /\ locResult' = NoResult
    /\ ipLookups' = 0
    /\ positionOutcome' = "none"
    /\ geocodeResponse' = NoResponse
    /\ ipResponse' = NoResponse
    /\ UNCHANGED besideLocate

NextLocate ==
    \/ \E geolocation, permissions \in BOOLEAN : LocateStart(geolocation, permissions)
    \/ \E answer \in PermissionAnswers : PermissionAnswer(answer)
    \/ \E coords \in Positions : PositionFound(coords)
    \/ \E code \in PositionErrors : PositionError(code)
    \/ \E response \in GeocodeResponses : GeocodeAnswer(response)
    \/ \E response \in IpResponses : IpAnswer(response)
    \/ LocateReturn

SpecLocate == Init /\ [][NextLocate]_vars

\* ------------------------------------------------------------------ sw.js
MaxInFlight == 2

\* Responses of the network: a status and a type that go together (an
\* opaque response has status 0).
Responses ==
    {[status |-> 200, type |-> "basic", body |-> "new"],
     [status |-> 404, type |-> "basic", body |-> "new"],
     [status |-> 200, type |-> "cors", body |-> "new"],
     [status |-> 500, type |-> "cors", body |-> "new"],
     [status |-> 0, type |-> "opaque", body |-> "new"]}

\* What an earlier version of the worker cached.
OldResponse == [status |-> 200, type |-> "basic", body |-> "old"]

Entry(url, response) == [url |-> url, response |-> response]

\* cache.put: the entry of the url is replaced.
put(cache, url, response) ==
    [exists |-> TRUE,
     entries |-> {e \in cache.entries : e.url # url} \cup {Entry(url, response)}]

\* cache.match: requests other than GET match nothing.
cacheMatch(cache, request) ==
    IF request.method = "GET" /\ \E e \in cache.entries : e.url = request.url
    THEN {(CHOOSE e \in cache.entries : e.url = request.url).response}
    ELSE {}

\* caches.match: the first match, in the order the caches were created; the
\* empty set is undefined.
RECURSIVE matchFrom(_, _, _)
matchFrom(storage, request, i) ==
    IF i > Len(CacheOrder) THEN {}
    ELSE IF cacheMatch(storage[CacheOrder[i]], request) # {}
    THEN cacheMatch(storage[CacheOrder[i]], request)
    ELSE matchFrom(storage, request, i + 1)

cachesMatch(storage, request) == matchFrom(storage, request, 1)

\* Variant: every response with status 200 is kept.
shouldCacheAnyType(response) == response.status = 200

\* The two checks of the fetch listener before it clones the response.
shouldCache(response) ==
    /\ response.status = 200
    /\ ~(response.type # "basic" /\ response.type # "module" /\ response.type # "opaque")

cacheWhitelist == {CACHE_NAME}

besideWorker == <<isOnline, chatVars, rewardsVars, startVars, locateVars>>

Pending == {request \in Requests : inFlight[request].pc # "none"}

\* An earlier version of the application left an entry in one of its caches.
EarlierVersion(name, url) ==
    /\ swState = "parsed"
    /\ name \notin cacheWhitelist
    /\ cacheStorage' = [cacheStorage EXCEPT ![name] = put(@, url, OldResponse)]
    /\ swLog' = NoEvent
    /\ UNCHANGED <<swState, toDelete, inFlight, besideWorker>>

\* install: skipWaiting and caches.open(CACHE_NAME).
InstallStart ==
    /\ swState = "parsed"
    /\ swState' = "installing"
    /\ cacheStorage' = [cacheStorage EXCEPT ![CACHE_NAME].exists = TRUE]
    /\ swLog' = NoEvent
    /\ UNCHANGED <<toDelete, inFlight, besideWorker>>

\* cache.addAll(urlsToCache) settles: every url is stored, or none is and
\* the installation fails.
RECURSIVE addAll(_, _)
addAll(cache, urls) ==
    IF urls = {} THEN cache
    ELSE LET url == CHOOSE u \in urls : TRUE
         IN  addAll(put(cache, url, [status |-> 200, type |-> "basic", body |-> "new"]),
                    urls \ {url})

InstallDone(ok) ==
    /\ swState = "installing"
    /\ IF ok
       THEN /\ cacheStorage' = [cacheStorage EXCEPT ![CACHE_NAME] = addAll(@, urlsToCache)]
            /\ swState' = "installed"
       ELSE /\ swState' = "parsed"
            /\ UNCHANGED cacheStorage
    /\ swLog' = NoEvent
    /\ UNCHANGED <<toDelete, inFlight, besideWorker>>

\* activate: caches.keys() settles and caches.delete is called for every
\* name that is not in the whitelist.
ActivateStart ==
    /\ swState = "installed"
    /\ swState' = "activating"
    /\ toDelete' = {name \in CacheNames : cacheStorage[name].exists /\ name \notin cacheWhitelist}
    /\ swLog' = NoEvent
    /\ UNCHANGED <<cacheStorage, inFlight, besideWorker>>

\* One caches.delete settles.
CacheDeleted(name) ==
    /\ swState = "activating"
    /\ name \in toDelete
    /\ cacheStorage' = [cacheStorage EXCEPT ![name] = NoCache]
    /\ toDelete' = toDelete \ {name}
    /\ swLog' = NoEvent
    /\ UNCHANGED <<swState, inFlight, besideWorker>>

\* Promise.all settles; clients.claim().
ActivateDone ==
    /\ swState = "activating"
    /\ toDelete = {}
    /\ swState' = "activated"
    /\ swLog' = NoEvent
    /\ UNCHANGED <<cacheStorage, toDelete, inFlight, besideWorker>>

\* fetch: caches.match settles; the response is served from the cache or
\* the request goes to the network.
FetchEvent(request) ==
    /\ swState = "activated"
    /\ inFlight[request].pc = "none"
    /\ IF cachesMatch(cacheStorage, request) # {}
       THEN /\ swLog' = [op |-> "fetch", request |-> request, source |-> "cache",
                         response |-> CHOOSE r \in cachesMatch(cacheStorage, request) : TRUE]
            /\ UNCHANGED inFlight
       ELSE /\ Cardinality(Pending) < MaxInFlight
            /\ inFlight' = [inFlight EXCEPT ![request].pc = "network"]
            /\ swLog' = [op |-> "fetch", request |-> request, source |-> "network",
                         response |-> NoResponseYet]
    /\ UNCHANGED <<cacheStorage, swState, toDelete, besideWorker>>

\* fetch(event.request) resolves with response: it is returned, and a clone
\* is on its way to the cache when it passes the two checks.
NetworkResponse(request, response) ==
    /\ inFlight[request].pc = "network"
    /\ inFlight' = [inFlight EXCEPT ![request] =
                       IF shouldCache(response) THEN [pc |-> "put", response |-> response]
                       ELSE Idle]
    /\ swLog' = NoEvent
    /\ UNCHANGED <<cacheStorage, swState, toDelete, besideWorker>>

\* fetch(event.request) rejects: the catch answers with undefined.
NetworkFails(request) ==
    /\ inFlight[request].pc = "network"
    /\ inFlight' = [inFlight EXCEPT ![request] = Idle]
    /\ swLog' = NoEvent
    /\ UNCHANGED <<cacheStorage, swState, toDelete, besideWorker>>

\* caches.open(CACHE_NAME) settles and cache.put runs; put rejects for a
\* request that is not a GET.
CachePut(request) ==
    /\ inFlight[request].pc = "put"
    /\ cacheStorage' =
         IF request.method = "GET"
         THEN [cacheStorage EXCEPT ![CACHE_NAME] = put(@, request.url, inFlight[request].response)]
         ELSE [cacheStorage EXCEPT ![CACHE_NAME].exists = TRUE]
    /\ inFlight' = [inFlight EXCEPT ![request] = Idle]
    /\ swLog' = NoEvent
    /\ UNCHANGED <<swState, toDelete, besideWorker>>

NextWorker ==
    \/ \E name \in CacheNames, url \in Urls : EarlierVersion(name, url)
    \/ InstallStart
    \/ \E ok \in BOOLEAN : InstallDone(ok)
    \/ ActivateStart
    \/ \E name \in CacheNames : CacheDeleted(name)
    \/ ActivateDone
    \/ \E request \in Requests : FetchEvent(request)
    \/ \E request \in Requests, response \in Responses : NetworkResponse(request, response)
    \/ \E request \in Requests : NetworkFails(request)
    \/ \E request \in Requests : CachePut(request)

SpecWorker == Init /\ [][NextWorker]_vars

\* ===================================================== properties
Transcript == getChatHistory(localStorage)
Outbox == getMessageQueue(localStorage)

\* Positions of the messages with the given id in a transcript.
Matches(list, id) == {k \in 1..Len(list) : list[k].id = id}

Ascending(list) == \A i, j \in 1..Len(list) : i < j => list[i].id.n < list[j].id.n

\* A drain pass runs to its end in this step (it is not cut off by a reload).
PassFinishes == isSyncing /\ ~isSyncing' /\ crashes' = crashes

\* The resync worker opens the backend stream of a queued item in this step.
SyncCalls == isSyncing' /\ (~isSyncing \/ qIdx' # qIdx \/ crashes' # crashes)

\* C1: the resync worker calls the backend for the queued items in the order
\* in which addMessageToQueue appended them: the outbox and the queue read
\* from it are in enqueue order, the calls of a pass follow the queue item
\* by item, and a pass that ends has called the backend for all of them.
C1_FifoOrder ==
    [][/\ Ascending(Outbox')
       /\ Ascending(queue')
       /\ isSyncing' => /\ Len(passLog') = qIdx'
                        /\ \A i \in 1..qIdx' : passLog'[i].id = queue'[i].id
       /\ PassFinishes => Ids(passLog') = Ids(queue)]_vars

C1_Witness ==
    /\ ~isSyncing
    /\ Len(passLog) >= 2
    /\ passLog[1].id = UserId(1)
    /\ passLog[2].id = UserId(2)

\* C2: a resync request that arrives while a drain pass is running is
\* dropped: it reads nothing, calls nothing and writes nothing, so the pass
\* in progress stays the only one.
C2_ReentrantCallDropped ==
    [][(isSyncing /\ ~isOnline /\ isOnline')
         => UNCHANGED <<isSyncing, localStorage, syncVars, messages, passLog>>]_vars

C2_Witness == dropped /\ isSyncing /\ syncPc = "streaming" /\ Len(queue) >= 1

\* C3: an item that addMessageToQueue put into the outbox while a drain
\* pass was running (it is not in the queue the pass read) is still in the
\* outbox when that pass ends.
C3_EnqueuedDuringDrainKept ==
    [][PassFinishes
         => \A i \in 1..Len(Outbox) :
               Outbox[i].id \notin IdSet(queue) => Outbox[i].id \in IdSet(Outbox')]_vars

\* C4: a pass over the queue a, b in which the stream of a yields tokens and
\* ends normally and the stream of b fails before any token (both messages
\* in the transcript, b never answered before) ends with a persisted
\* transcript holding a with status sent and, after it, the model reply of a
\* with the whole answer, b with status failed, no model reply of b, and
\* an empty outbox.
C4_Scenario ==
    [][(/\ PassFinishes
        /\ Len(passLog') = 2
        /\ passLog'[1].result = "ok" /\ passLog'[1].tokens >= 1
        /\ passLog'[2].result = "failed" /\ passLog'[2].tokens = 0
        /\ Matches(currentChatHistory, passLog'[1].id) # {}
        /\ Matches(currentChatHistory, passLog'[2].id) # {}
        /\ Matches(currentChatHistory, ModelId(passLog'[2].id)) = {})
         => LET a == passLog'[1].id
                b == passLog'[2].id
            IN  /\ \E i, j \in 1..Len(Transcript') :
                      /\ i < j
                      /\ Transcript'[i].id = a
                      /\ Transcript'[i].role = "user"
                      /\ Transcript'[i].status = "sent"
                      /\ Transcript'[j].id = ModelId(a)
                      /\ Transcript'[j].role = "model"
                      /\ Len(Transcript'[j].text) = passLog'[1].tokens
                      /\ \A k \in 1..Len(Transcript'[j].text) :
                            Transcript'[j].text[k] = Chunk(a, k)
                /\ \A k \in Matches(Transcript', b) :
                      Transcript'[k].role = "user" /\ Transcript'[k].status = "failed"
                /\ Cardinality(Matches(Transcript', b)) = 1
                /\ Matches(Transcript', ModelId(b)) = {}
                /\ Outbox' = <<>>
                /\ ~localStorage'.chatOutbox.present]_vars

C4_Witness ==
    /\ ~isSyncing
    /\ Len(passLog) = 2
    /\ passLog[1].result = "ok" /\ passLog[1].tokens >= 1
    /\ passLog[2].result = "failed" /\ passLog[2].tokens = 0
    /\ Len(Transcript) = 3
    /\ Transcript[1].status = "sent"
    /\ Transcript[2].status = "failed"
    /\ Transcript[3].id = ModelId(Transcript[1].id)
    /\ Outbox = <<>>

\* C5: a message sent while offline stays in the persisted transcript until
\* the resync worker has settled it: a pending user message of the transcript
\* is never removed from it.
C5_PendingNeverDisappears ==
    [][\A i \in 1..Len(Transcript) :
          (Transcript[i].role = "user" /\ Transcript[i].status = "pending")
             => Matches(Transcript', Transcript[i].id) # {}]_vars

\* C6: in the persisted transcript the status of a user message changes only
\* from pending to sent or to failed, only in a step of the resync worker,
\* and the text of a model message only grows by appended tokens.
IsPrefix(s, t) == Len(s) <= Len(t) /\ \A k \in 1..Len(s) : s[k] = t[k]

C6_StatusAndTextMonotone ==
    [][\A i \in 1..Len(Transcript) : \A j \in 1..Len(Transcript') :
          /\ (Transcript[i].role = "user" /\ Transcript'[j].id = Transcript[i].id)
                => \/ Transcript'[j].status = Transcript[i].status
                   \/ /\ Transcript[i].status = "pending"
                      /\ Transcript'[j].status \in {"sent", "failed"}
                      /\ isSyncing
          /\ (Transcript[i].role = "model" /\ i = j /\ Transcript'[j].id = Transcript[i].id)
                => IsPrefix(Transcript[i].text, Transcript'[j].text)]_vars

StreamFails ==
    /\ isSyncing
    /\ crashes' = crashes
    /\ Len(passLog') >= Len(passLog)
    /\ passLog[Len(passLog)].result = "open"
    /\ passLog'[Len(passLog)].result = "failed"

C8_FailureDoesNotAbort ==
    [][/\ StreamFails
          => /\ qIdx < Len(queue)
                => /\ isSyncing' /\ syncPc' = "streaming"
                   /\ queue' = queue /\ qIdx' = qIdx + 1
                   /\ passLog'[qIdx'] = BackendCall(queue[qIdx + 1])
                   /\ userMessageIndex > -1
                         => currentChatHistory'[userMessageIndex + 1].status = "failed"
             /\ qIdx = Len(queue)
                => /\ PassFinishes
                   /\ Outbox' = <<>>
                   /\ userMessageIndex > -1
                         => Transcript'[userMessageIndex + 1].status = "failed"
       /\ PassFinishes
          => \A i \in 1..Len(passLog') :
                passLog'[i].result = "failed"
                   => \A k \in Matches(Transcript', passLog'[i].id) :
                         Transcript'[k].status = "failed"]_vars

C8_Witness ==
    /\ isSyncing
    /\ qIdx = 2
    /\ passLog[1].result = "failed"
    /\ passLog[2].result = "open"
    /\ currentChatHistory[1].status = "failed"

\* C9: the outbox is emptied only by a drain pass that has gone through its
\* whole queue, whatever the outcomes, and the resync worker never opens a
\* backend stream for an item whose transcript entry has status failed.
C9_FailedNeverResent ==
    [][/\ (Outbox # <<>> /\ Outbox' = <<>>) => (PassFinishes /\ qIdx = Len(queue))
       /\ SyncCalls
          => \A k \in Matches(Transcript, queue'[qIdx'].id) :
                Transcript[k].status # "failed"]_vars

\* C10: after a reload in the middle of a drain pass the next pass opens a
\* backend stream for the queued items again, but not for an item whose
\* transcript entry already has status sent.
C10_SentNotResent ==
    [][SyncCalls
         => \A k \in Matches(Transcript, queue'[qIdx'].id) :
               Transcript[k].status # "sent"]_vars

\* C11: a user message that the chat view appended to the persisted
\* transcript while a drain pass was running (the pass did not read it) is
\* still in the persisted transcript when that pass ends.
C11_SendDuringDrainKept ==
    [][PassFinishes
         => \A i \in 1..Len(Transcript) :
               (Transcript[i].role = "user" /\ Transcript[i].id \notin IdSet(currentChatHistory))
                  => Matches(Transcript', Transcript[i].id) # {}]_vars

\* C12: a send made while the observed state is offline appends a pending
\* user message to the persisted transcript, opens no backend stream, and
\* puts exactly one queued message with the same id at the end of the
\* outbox, at once without an attachment and else when the conversion of the
\* attachment has settled.
Last(list) == list[Len(list)]

OfflineSendStarts == nextId' = nextId + 1 /\ ~isOnline

EnqueueSettles == sendPc = "converting" /\ sendPc' = "idle" /\ crashes' = crashes

C12_OfflineSendQueues ==
    [][/\ OfflineSendStarts
          => /\ Len(Transcript') = Len(Transcript) + 1
             /\ SubSeq(Transcript', 1, Len(Transcript)) = Transcript
             /\ Last(Transcript').id = UserId(nextId')
             /\ Last(Transcript').role = "user"
             /\ Last(Transcript').status = "pending"
             /\ sendPc' \in {"idle", "converting"}
             /\ UNCHANGED <<isSyncing, syncVars>>
             /\ passLog' = passLog \/ passLog' = <<>>
             /\ sendPc' = "converting" => Outbox' = Outbox
             /\ sendPc' = "idle"
                   => /\ Len(Outbox') = Len(Outbox) + 1
                      /\ SubSeq(Outbox', 1, Len(Outbox)) = Outbox
                      /\ Last(Outbox').id = UserId(nextId')
                      /\ Cardinality(Matches(Outbox', UserId(nextId'))) = 1
       /\ EnqueueSettles
          => /\ Len(Outbox') = Len(outbox) + 1
             /\ SubSeq(Outbox', 1, Len(outbox)) = outbox
             /\ Last(Outbox').id = userMessage.id
             /\ Cardinality(Matches(Outbox', userMessage.id)) = 1
             /\ UNCHANGED <<isSyncing, syncVars, localStorage.chatHistory>>]_vars

C12_Witness ==
    /\ ~isOnline
    /\ sendPc = "idle"
    /\ Len(Outbox) = 2
    /\ Last(Outbox).id = Last(Transcript).id
    /\ Last(Transcript).status = "pending"
    /\ Last(Outbox).fileName = "name"

\* C13: a transition of the observed state to online makes exactly one call
\* of syncOfflineMessages; a transition to offline makes none and changes
\* nothing but the observed state.
C13_OneResyncPerOnline ==
    [][/\ (~isOnline /\ isOnline') => calls' = 1
       /\ (isOnline /\ ~isOnline')
             => /\ calls' = 0
                /\ UNCHANGED <<isSyncing, localStorage, syncVars, messages, sendVars>>]_vars

C13_Witness == isOnline /\ calls = 1 /\ isSyncing /\ ~dropped /\ crashes = 0

\* The stream of the current queued item ends normally after at least one chunk.
SyncStreamEnds ==
    /\ syncPc = "streaming"
    /\ crashes' = crashes
    /\ Len(fullResponse) >= 1
    /\ Len(passLog') >= Len(passLog)
    /\ passLog'[Len(passLog)].result = "ok"

\* The stream of the interactive send ends normally after at least one chunk.
SendStreamEnds ==
    /\ sendPc = "streaming"
    /\ sendPc' = "idle"
    /\ error' = "null"
    /\ crashes' = crashes
    /\ Len(sendResponse) >= 1

\* The transcript holds exactly one message with this id and it has this text.
OneWithText(list, id, text) ==
    /\ Cardinality(Matches(list, id)) = 1
    /\ \A k \in Matches(list, id) : list[k].role = "model" /\ list[k].text = text

\* C14: when a stream that yielded the chunks t1..tk (k >= 1) for one prompt
\* ends normally, the transcript holds exactly one model message for that
\* prompt and its text is t1..tk, for the drain and for the interactive send.
C14_OneReplyWithFullText ==
    [][/\ (SyncStreamEnds /\ isSyncing')
          => OneWithText(currentChatHistory', ModelId(queue[qIdx].id), fullResponse)
       /\ (SyncStreamEnds /\ PassFinishes)
          => OneWithText(Transcript', ModelId(queue[qIdx].id), fullResponse)
       /\ SendStreamEnds
          => OneWithText(Transcript', ModelId(userMessage.id), sendResponse)]_vars

\* C15: saving a transcript with saveChatHistory and loading it with
\* getChatHistory, with no write in between and the write accepted, returns
\* the list that was saved: same length, same order, same members.  Checked
\* for every list the program holds in a reachable state: the view's list,
\* the drain's copy and the stored transcript itself.
C15_SaveLoadRoundTrip ==
    \A list \in {messages, currentChatHistory, Transcript} :
        getChatHistory(saveChatHistory(localStorage, list)) = list

C15_Witness ==
    /\ Transcript = messages
    /\ \E i, j \in 1..Len(messages) :
          /\ messages[i].role = "user"
          /\ messages[i].status = "sent"
          /\ messages[i].fileName = "name"
          /\ messages[j].role = "model"
          /\ messages[j].status = "undefined"
          /\ Len(messages[j].text) = MaxTokens

\* The stored string of a key cannot be read: nothing stored, or not JSON.
Unreadable(key) == ~localStorage[key].present \/ ~localStorage[key].wellFormed

\* C16: getCachedData never raises; for a key that was never written and for
\* a key whose stored string does not parse it returns null, the same value
\* in both cases, so getChatHistory and getMessageQueue return the empty
\* list, which is what a load leaves in the view and in the drain.
C16_UnreadableIsNull ==
    /\ \A key \in Keys :
          /\ ~getCachedData(localStorage, key).raised
          /\ Unreadable(key) => getCachedData(localStorage, key) = Null
    /\ Unreadable("chatHistory") => getChatHistory(localStorage) = <<>>
    /\ Unreadable("chatOutbox") => getMessageQueue(localStorage) = <<>>
    /\ storeLog.op = "get"
          => /\ ~storeLog.raised
             /\ Unreadable("chatHistory") => messages = <<>>
             /\ Unreadable("chatOutbox") => queue = <<>>

C16_Witness ==
    /\ storeLog.op = "get"
    /\ localStorage["chatHistory"] = Unparsable
    /\ localStorage["chatOutbox"] = Absent
    /\ messages = <<>>
    /\ queue = <<>>

\* C17: when the storage refuses the write, setCachedData raises nothing to
\* its caller and the value stored under the key stays as it was, so a later
\* getCachedData returns the old entry, or null when there was none.
C17_RefusedWriteIsNoOp ==
    [][(storeLog'.op = "set" /\ ~storeLog'.ok)
          => /\ ~storeLog'.raised
             /\ localStorage' = localStorage
             /\ \A key \in Keys :
                   getCachedData(localStorage', key) = getCachedData(localStorage, key)]_vars

C17_Witness ==
    /\ storeLog = [op |-> "set", ok |-> FALSE, raised |-> FALSE]
    /\ getChatHistory(localStorage) = <<StoredUser>>
    /\ getCachedData(localStorage, "chatOutbox") = Null

\* C18: when the conversion of the attached file settles, rejected or not,
\* addMessageToQueue appends one item to the outbox it read, with the id, the
\* prompt and the language of the message and with fileData null when the
\* conversion was rejected; sendMessage returns with no error shown.  The
\* drain passes a file to the backend only for an item that holds file data,
\* so an item with fileData null is sent with its prompt alone.
C18_FailedConversionQueuesText ==
    [][/\ EnqueueSettles
          => /\ Len(Outbox') = Len(outbox) + 1
             /\ \A i \in 1..Len(outbox) : Outbox'[i] = outbox[i]
             /\ Last(Outbox').id = userMessage.id
             /\ Last(Outbox').prompt = userMessage.text
             /\ Last(Outbox').lang = Lang
             /\ Last(Outbox').fileName = userMessage.fileName
             /\ Last(Outbox').fileData \in {"data", "null"}
             /\ error' = error /\ ~loading'
       /\ SyncCalls
          => /\ passLog'[qIdx'].id = queue'[qIdx'].id
             /\ passLog'[qIdx'].prompt = queue'[qIdx'].prompt
             /\ passLog'[qIdx'].lang = queue'[qIdx'].lang
             /\ passLog'[qIdx'].file = (queue'[qIdx'].fileData # "null")]_vars

C18_Witness ==
    /\ isSyncing
    /\ qIdx >= 1
    /\ queue[qIdx].fileName = "name"
    /\ queue[qIdx].fileData = "null"
    /\ passLog[qIdx].id = queue[qIdx].id
    /\ ~passLog[qIdx].file
    /\ passLog[qIdx].prompt = <<"hello">>
    /\ error = "null"

\* C19: the drain is strictly sequential: the backend call of queued item
\* n + 1 is made only when the stream of item n has ended or failed, so at
\* most one stream started by the resync worker is open, the one of the
\* current item.
C19_OneOpenStream ==
    /\ \A i \in 1..Len(passLog) :
          passLog[i].result = "open"
             => i = Len(passLog) /\ i = qIdx /\ isSyncing /\ syncPc = "streaming"
    /\ Cardinality({i \in 1..Len(passLog) : passLog[i].result = "open"}) <= 1
    /\ syncPc = "streaming"
          => /\ Len(passLog) = qIdx
             /\ passLog[qIdx].id = queue[qIdx].id
             /\ passLog[qIdx].result = "open"

C19_Witness ==
    /\ syncPc = "streaming"
    /\ qIdx = 2
    /\ passLog[1].result \in {"ok", "failed"}
    /\ passLog[2].result = "open"
    /\ passLog[2].tokens >= 1

\* C20: the resync worker goes Idle -> Draining -> Idle.  When every backend
\* stream terminates, a guard that is set is eventually released; a call
\* that finds the queue empty releases it before it returns.  The guard is
\* released only after the stream of the last queued item (or by a page
\* reload), so while a stream stays open the guard stays set, the worker
\* stays on the same item and no other pass starts.
C20_GuardReleased ==
    /\ isSyncing ~> ~isSyncing
    /\ [][/\ (~isSyncing /\ calls' = 1 /\ Len(getMessageQueue(localStorage)) = 0) => ~isSyncing'
          /\ (isSyncing /\ ~isSyncing' /\ crashes' = crashes)
                => /\ syncPc = "streaming" /\ qIdx = Len(queue)
                   /\ passLog'[qIdx].result \in {"ok", "failed"}
          /\ (syncPc = "streaming" /\ syncPc' = "streaming" /\ crashes' = crashes
                /\ Len(passLog') = Len(passLog) /\ passLog'[qIdx].result = "open")
                => /\ isSyncing'
                   /\ queue' = queue /\ qIdx' = qIdx]_vars

C20_Witness ==
    /\ ~isSyncing
    /\ syncPc = "idle"
    /\ crashes = 0
    /\ Len(passLog) = 2
    /\ passLog[1].result = "failed"
    /\ passLog[2].result = "ok"
    /\ Outbox = <<>>

\* C21: while the drain is inside the stream of an item and has consumed at
\* least one token, the last element of the persisted transcript is the
\* model message of that item and its text is the concatenation of the
\* tokens received so far, so that a reload at that point shows the latest
\* partial answer.
C21_PartialAnswerPersisted ==
    (syncPc = "streaming" /\ Len(fullResponse) >= 1)
       => /\ Len(Transcript) >= 1
          /\ Last(Transcript).id = ModelId(queue[qIdx].id)
          /\ Last(Transcript).role = "model"
          /\ Last(Transcript).text = fullResponse

\* The backend calls of the pass that have yielded at least one chunk.
HasTokens(call) == call.tokens >= 1
Replied == SelectSeq(passLog, HasTokens)

\* The drain's copy of the transcript after a step: the persisted transcript
\* when the step ends the pass.
CopyAfter == IF isSyncing' THEN currentChatHistory' ELSE Transcript'

FirstToken == firstChunk /\ isSyncing' /\ qIdx' = qIdx /\ Len(fullResponse') = 1

\* C22: in a drain pass every model reply is appended at the tail of the
\* transcript copy on the first token of its stream and nothing else is
\* added: the entries already in the copy keep their positions, the replies
\* of the pass are the last entries of the copy, in queue order, and an item
\* whose stream yields no token adds no model message.
C22_RepliesAppendedAtTail ==
    /\ [](isSyncing
            => /\ Len(currentChatHistory) >= Len(Replied)
               /\ \A k \in 1..Len(Replied) :
                     LET m == currentChatHistory[Len(currentChatHistory) - Len(Replied) + k]
                     IN  m.id = ModelId(Replied[k].id) /\ m.role = "model")
    /\ [][(syncPc = "streaming" /\ crashes' = crashes)
             => /\ Len(CopyAfter) = Len(currentChatHistory) + (IF FirstToken THEN 1 ELSE 0)
                /\ \A k \in 1..Len(currentChatHistory) :
                      /\ CopyAfter[k].id = currentChatHistory[k].id
                      /\ CopyAfter[k].role = currentChatHistory[k].role
                /\ FirstToken
                      => /\ Last(CopyAfter).id = ModelId(queue[qIdx].id)
                         /\ Last(CopyAfter).role = "model"]_vars

C22_Witness ==
    /\ ~isSyncing
    /\ crashes = 0
    /\ Len(passLog) = 2
    /\ passLog[1].result = "ok" /\ passLog[1].tokens = 0
    /\ passLog[2].result = "ok" /\ passLog[2].tokens >= 1
    /\ Ids(Transcript) = <<UserId(1), UserId(2), ModelId(UserId(2))>>

\* C23: across all drain passes and every interleaving of addMessageToQueue
\* (outbox read before the file conversion, written after it) with the
\* clearMessageQueue of a pass, and without any page reload, an offline
\* message is sent to the backend at most once (the worker opens a stream
\* only for an item whose transcript entry is still pending) and has at most
\* one model reply in the transcript.
C23_SentAtMostOnce ==
    /\ [](crashes = 0
            => \A n \in 1..MaxMsgs :
                  Cardinality(Matches(Transcript, ModelId(UserId(n)))) <= 1)
    /\ [][(crashes' = 0 /\ SyncCalls)
             => \A k \in Matches(Transcript, queue'[qIdx'].id) :
                   Transcript[k].status = "pending"]_vars

\* C24: when the stream of a queued item fails, the user message is marked
\* failed and nothing is taken out of the transcript: after one or more
\* tokens the partial model reply built so far stays the last entry of the
\* drain's copy and is in the transcript the pass persists at its end; a
\* failure before the first token adds no model reply and changes no text.
C24_PartialReplyKept ==
    [][/\ StreamFails
          => /\ userMessageIndex > -1 => CopyAfter[userMessageIndex + 1].status = "failed"
             /\ Len(CopyAfter) = Len(currentChatHistory)
             /\ \A k \in 1..Len(currentChatHistory) :
                   /\ CopyAfter[k].id = currentChatHistory[k].id
                   /\ CopyAfter[k].text = currentChatHistory[k].text
             /\ Len(fullResponse) >= 1
                   => /\ Last(CopyAfter).id = ModelId(queue[qIdx].id)
                      /\ Last(CopyAfter).text = fullResponse
             /\ isSyncing' => Transcript' = Transcript
       /\ PassFinishes
          => \A i \in 1..Len(passLog') :
                (passLog'[i].result = "failed" /\ passLog'[i].tokens >= 1)
                   => \E k \in Matches(Transcript', ModelId(passLog'[i].id)) :
                         Len(Transcript'[k].text) = passLog'[i].tokens]_vars

C24_Witness ==
    /\ ~isSyncing
    /\ crashes = 0
    /\ Len(passLog) = 1
    /\ passLog[1].result = "failed" /\ passLog[1].tokens >= 1
    /\ Len(Transcript) = 2
    /\ Transcript[1].status = "failed"
    /\ Transcript[2].id = ModelId(Transcript[1].id)
    /\ Len(Transcript[2].text) = passLog[1].tokens

\* The effect on isOnline runs: the observed state changes or the page mounts.
EffectRuns == isOnline' # isOnline \/ crashes' # crashes

\* C25: a resync triggered while the outbox is empty, or while the observed
\* state is offline, is a no-op: no backend stream is opened, neither the
\* transcript nor the outbox is written, the view gets no change
\* notification and the worker is Idle afterwards.
C25_EmptyOrOfflineIsNoOp ==
    [][/\ (calls' = 1 /\ ~isSyncing /\ Outbox = <<>>)
          => /\ localStorage' = localStorage
             /\ ~isSyncing' /\ syncPc' = "idle" /\ qIdx' = 0
             /\ passLog' = <<>>
             /\ crashes' = crashes => messages' = messages
       /\ (EffectRuns /\ ~isOnline')
          => /\ calls' = 0
             /\ localStorage' = localStorage
             /\ ~SyncCalls
             /\ crashes' = crashes => UNCHANGED <<isSyncing, syncVars, messages>>
             /\ crashes' # crashes => ~isSyncing' /\ syncPc' = "idle"]_vars

C25_Witness ==
    /\ calls = 1
    /\ isOnline
    /\ crashes = 0
    /\ ~isSyncing /\ syncPc = "idle"
    /\ Outbox = <<>>
    /\ passLog = <<>>
    /\ Len(Transcript) >= 2

OnlineSendStarts == nextId' = nextId + 1 /\ isOnline

SendStreamFails ==
    sendPc = "streaming" /\ sendPc' = "idle" /\ error' = "err" /\ crashes' = crashes

\* C26: a user message sent while the observed state is online is stored
\* with status sent before the backend is called and has no other status
\* while its send is in flight; when the backend call fails the error is
\* shown, the loading flag is cleared, nothing is added to the outbox and
\* the message is in the persisted transcript, with status sent.
C26_OnlineSendFailureSurfaces ==
    [][/\ OnlineSendStarts
          => /\ Last(Transcript').id = UserId(nextId')
             /\ Last(Transcript').status = "sent"
             /\ sendPc' = "streaming" /\ Len(sendResponse') = 0
             /\ Outbox' = Outbox
       /\ sendPc' = "streaming"
          => \A k \in Matches(Transcript', userMessage'.id) : Transcript'[k].status = "sent"
       /\ SendStreamFails
          => /\ ~loading'
             /\ Outbox' = Outbox
             /\ userMessage.id \notin IdSet(Outbox')
             /\ Transcript' = Transcript
             /\ \E k \in Matches(Transcript', userMessage.id) : Transcript'[k].status = "sent"]_vars

RECURSIVE SumPoints(_)
SumPoints(log) ==
    IF log = <<>> THEN Number(0) ELSE Add(log[Len(log)].pointsEarned, SumPoints(SubSeq(log, 1, Len(log) - 1)))

ValidQuantity(str) == ~parseFloat(str).nan /\ parseFloat(str).value > 0

\* C27: with no storage failure the stored reward point total equals the sum
\* of pointsEarned over the entries of the stored harvest log and the log
\* lists the sales newest first; the stored total and log change only when
\* the price arrives for a submission made online with a positive numeric
\* quantity, so a submission made offline, or with a quantity that is not a
\* number or not positive, changes neither.
C27_PointsMatchLog ==
    /\ [](/\ getRewardsPoints(rewardsStorage) = SumPoints(getHarvestLog(rewardsStorage))
          /\ \A i, j \in 1..Len(getHarvestLog(rewardsStorage)) :
                i < j => getHarvestLog(rewardsStorage)[i].id > getHarvestLog(rewardsStorage)[j].id)
    /\ [][/\ (rewardsPc = "idle" /\ rewardsPc' = "pricing") => isOnline
          /\ (rewardsPc = "idle" /\ rewardsPc' = "idle" /\ ~isOnline)
                => rewardsStorage' = rewardsStorage
          /\ (rewardsPc = "pricing" /\ ~ValidQuantity(submitted))
                => rewardsStorage' = rewardsStorage
          /\ rewardsStorage' # rewardsStorage
                => /\ rewardsPc = "pricing" /\ ValidQuantity(submitted)
                   /\ Len(getHarvestLog(rewardsStorage')) = Len(getHarvestLog(rewardsStorage)) + 1]_vars

\* The step in which the session takes its decision about the location modal.
DecisionTaken == ~hasShownLocationModal /\ hasShownLocationModal'

\* C28: when the application starts with no user location, the decision
\* follows the stored profile: with a default location stored the user
\* location becomes that location and the modal is not shown, otherwise the
\* modal is shown; and once the decision is taken the session takes no
\* second one: the flag stays set and nothing opens the modal again.
C28_StartFollowsStoredProfile ==
    [][/\ DecisionTaken =>
            IF HasDefaultLocation(getUserProfile(storedProfile))
            THEN /\ userLocation' = Location(getUserProfile(storedProfile).defaultLocation)
                 /\ ~showLocationModal'
            ELSE showLocationModal' /\ userLocation' = userLocation
       /\ (appPc = "start" /\ appPc' = "mounted") => DecisionTaken
       /\ (hasShownLocationModal /\ appPc' = "mounted")
            => hasShownLocationModal' /\ (showLocationModal' => showLocationModal)]_vars

\* The cities of Cities that name a simulated location, in any case.
SimulatedCities ==
    {<<"K", "o", "l", "k", "a", "t", "a">>, <<"B", "A", "N", "G", "A", "L", "O", "R", "E">>,
     <<"N", "e", "w", " ", "B", "e", "n", "g", "a", "l", "u", "r", "u">>}

GeolocationSucceeded == positionOutcome = "success"
NamedSimulated == geocodeResponse.ok /\ geocodeResponse.city \in SimulatedCities
IpLookupFailed ==
    \/ ~ipResponse.ok
    \/ /\ ~(ipResponse.city # <<>> /\ ipResponse.region # <<>> /\ ipResponse.country # <<>>)
       /\ ipResponse.loc = <<>>

Comma == <<",", " ">>
IpLookupResult ==
    IF ipResponse.city # <<>> /\ ipResponse.region # <<>> /\ ipResponse.country # <<>>
    THEN ipResponse.city \o Comma \o ipResponse.region \o Comma \o ipResponse.country
    ELSE <<"L", "a", "t", ":", " ", "1", "8", ".", "5", "2", ",", " ",
           "L", "o", "n", ":", " ", "7", "3", ".", "8", "6">>

\* C29: when getAccurateLocation has settled: if geolocation succeeded and
\* the name is not a simulated location, it returned that name and made no IP
\* lookup; otherwise it made one IP lookup and returned its result, or, when
\* the lookup failed, threw the geolocation error if that was a permission
\* denial and the enter-it-manually error in every other case.
C29_AccurateLocationFallsBack ==
    locPc = "done" =>
        IF GeolocationSucceeded /\ ~NamedSimulated
        THEN /\ locResult = Returned(highAccuracyLocation)
             /\ highAccuracyLocation # <<>>
             /\ ipLookups = 0
        ELSE /\ ipLookups = 1
             /\ IF ~IpLookupFailed
                THEN locResult = Returned(IpLookupResult)
                ELSE IF positionOutcome = "PERMISSION_DENIED"
                THEN locResult = Thrown(DeniedMessage)
                ELSE locResult = Thrown(ManualMessage)

C29_Witness ==
    /\ locPc = "done"
    /\ GeolocationSucceeded
    /\ NamedSimulated
    /\ geocodeResponse.city = <<"B", "A", "N", "G", "A", "L", "O", "R", "E">>
    /\ IpLookupFailed
    /\ locResult = Thrown(ManualMessage)

\* The responses some cache holds for the request.
CachedFor(request) ==
    {e.response : e \in UNION {{x \in cacheStorage[name].entries :
                                    request.method = "GET" /\ x.url = request.url} :
                               name \in CacheNames}}

\* C30: a fetch event for a request some cache holds a response for is
\* answered with a cached response and sends nothing to the network; once
\* the worker is activated a response enters a cache only with status 200
\* and type basic, module or opaque; and once the worker is activated no
\* cache other than CACHE_NAME exists.
C30_CacheFirst ==
    /\ [](swState = "activated" =>
            \A name \in CacheNames : cacheStorage[name].exists => name = CACHE_NAME)
    /\ [][/\ \A request \in Requests :
                (CachedFor(request) # {} /\ swLog'.op = "fetch" /\ swLog'.request = request)
                    => /\ swLog'.source = "cache"
                       /\ swLog'.response \in CachedFor(request)
                       /\ inFlight' = inFlight
          /\ \A request \in Requests :
                (inFlight[request].pc = "none" /\ inFlight'[request].pc = "network")
                    => CachedFor(request) = {}
          /\ swState = "activated" =>
                \A name \in CacheNames : \A e \in cacheStorage'[name].entries :
                    e \notin cacheStorage[name].entries
                        => /\ e.response.status = 200
                           /\ e.response.type \in {"basic", "module", "opaque"}]_vars

C30_Witness ==
    /\ swState = "activated"
    /\ swLog.op = "fetch"
    /\ swLog.source = "cache"
    /\ swLog.request = [url |-> "/data", method |-> "GET"]
    /\ inFlight[[url |-> "/data", method |-> "POST"]].pc = "put"

====
